---------------------------- MODULE Spec2Model ----------------------------
(***************************************************************************)
(* Adaptive learning session of the vocabulary bot: the per-word state     *)
(* (core/models.py), the mastery and priority algorithm                    *)
(* (core/adaptive_learning.py), the session (core/learning_session.py)     *)
(* the session store (core/session_persistence.py), the long-term         *)
(* progress of a user (core/progress_tracker.py) and the handlers that     *)
(* start, question, pause, resume and finish a session                     *)
(* (bot/handlers/learning_handler.py, bot/handlers/start_handler.py).      *)
(***************************************************************************)
EXTENDS Integers, Sequences, FiniteSets, TLC

VARIABLES
  session,         \* the LearningSession object under the calls
  ret,             \* the last call on it and what it returned
  store,           \* the files of data/sessions
  loaded,          \* what the last load_session returned
  listed,          \* what the last load_all_sessions_for_user returned
  drill,           \* TRUE once every question is answered correctly
  progress,        \* ProgressTracker.progress of the tracker in use
  progress_files,  \* the progress.json files, by user_id
  tcall,           \* the last call on the tracker and its arguments
  active_sessions, \* learning_handler.active_sessions: user_id -> session
  objects,         \* the LearningSession objects the handlers hold, by id
  fsm,             \* the FSM state and data of each user
  session_resume_locks,  \* learning_handler.session_resume_locks
  tasks,           \* the handler tasks in flight and where each one is
  keyboards,       \* session ids whose paused keyboard was sent
  created,         \* session ids given out so far
  reported         \* the last handler that returned and what it reported

sessionVars == <<session, ret, store, loaded, listed, drill>>
trackerVars == <<progress, progress_files, tcall>>
botVars == <<active_sessions, objects, fsm, session_resume_locks, tasks,
             keyboards, created, reported>>
vars == <<session, ret, store, loaded, listed, drill, progress, progress_files, tcall,
          active_sessions, objects, fsm, session_resume_locks, tasks,
          keyboards, created, reported>>

None == "None"

(***************************************************************************)
(* Bounds of the model and inputs                                          *)
(***************************************************************************)
\* answers recorded in one session
MaxAnswers == 7
\* successful get_next_word calls in one session (total_words_shown)
MaxShown == 2
\* the answers of a drill: after MaxAnswers answers, all of them possibly
\* incorrect and for one item, that item needs 3 * MaxAnswers correct answers
\* for its success rate and every other item of a pool of three needs 3
MaxDrillAnswers == 4 * MaxAnswers + 9

\* the item texts a caller can name
Texts == {"korova", "moloko", "hleb"}

\* the word lists a session is created from (dictionary.words)
WordLists ==
  { <<"korova">>,
    <<"korova", "moloko">>,
    <<"moloko", "korova", "hleb">> }

UserIds == {1}
SessionIds == {"s1"}
DictIds == {"d1"}

\* handler tasks that can be in flight at the same time
ProcIds == {"t1", "t2"}
\* the uuids LearningSession.__init__ gives to the sessions the handlers start
BotSessionIds == {"s1", "s2"}
\* the dictionaries learning can be started on
BotWordLists == {<<"korova">>}
\* the words the answer buttons of their questions carry
BotTexts == {"korova"}
\* the word on the button of a question that is not the current one
StaleTexts == {"moloko"}
\* questions shown in one session started by the handlers
MaxBotShown == 3

\* update_word_progress calls on one tracker
MaxWordUpdates == 2
\* update_session_stats calls on one tracker
MaxTrackerSessions == 2
\* the (correct_count, incorrect_count) a finished session reports
SessionCounts == {<<3, 0>>, <<4, 1>>}
\* the words_mastered lists a finished session reports
MasteredLists == {<<>>, <<"korova">>, <<"korova", "moloko">>}

(***************************************************************************)
(* config.settings, as documented in AdaptiveLearning's docstring          *)
(***************************************************************************)
MASTERY_CONSECUTIVE_CORRECT == 3
MASTERY_MIN_ATTEMPTS == 3
\* MASTERY_SUCCESS_RATE = 0.75 = 75 / 100
MASTERY_SUCCESS_RATE_NUM == 75
MASTERY_SUCCESS_RATE_DEN == 100

(***************************************************************************)
(* core/models.py                                                          *)
(***************************************************************************)
\* the fields pydantic declares on Word
WordFields ==
  {"text", "consecutive_correct", "total_attempts", "correct_count",
   "incorrect_count", "is_mastered", "priority_score"}

\* Word(text=word): every counter at its default
Word(t) ==
  [text |-> t, consecutive_correct |-> 0, total_attempts |-> 0,
   correct_count |-> 0, incorrect_count |-> 0, is_mastered |-> FALSE,
   priority_score |-> 100]

\* SessionStats(session_id, user_id, dict_id, dict_name, total_words)
SessionStats(sid, uid, did, n) ==
  [session_id |-> sid, user_id |-> uid, dict_id |-> did,
   total_words |-> n, correct_answers |-> 0, incorrect_answers |-> 0,
   words_mastered |-> 0, words_mastered_list |-> <<>>,
   ended_at |-> None]

Max(a, b) == IF a >= b THEN a ELSE b
Min(a, b) == IF a <= b THEN a ELSE b

(***************************************************************************)
(* core/adaptive_learning.py                                               *)
(***************************************************************************)
\* is_word_mastered without criterion 4 (the success rate)
is_word_mastered_NoRate(word) ==
  IF word.consecutive_correct < MASTERY_CONSECUTIVE_CORRECT THEN FALSE
  ELSE IF word.total_attempts < MASTERY_MIN_ATTEMPTS THEN FALSE
  ELSE IF word.correct_count < MASTERY_MIN_ATTEMPTS THEN FALSE
  ELSE TRUE

\* is_word_mastered that never accepts a word with an incorrect answer
is_word_mastered_NoErrors(word) ==
  IF word.consecutive_correct < MASTERY_CONSECUTIVE_CORRECT THEN FALSE
  ELSE IF word.total_attempts < MASTERY_MIN_ATTEMPTS THEN FALSE
  ELSE IF word.correct_count < MASTERY_MIN_ATTEMPTS THEN FALSE
  ELSE word.incorrect_count = 0

is_word_mastered(word) ==
  IF word.consecutive_correct < MASTERY_CONSECUTIVE_CORRECT THEN FALSE
  ELSE IF word.total_attempts < MASTERY_MIN_ATTEMPTS THEN FALSE
  ELSE IF word.correct_count < MASTERY_MIN_ATTEMPTS THEN FALSE
  ELSE IF word.total_attempts > 0
          /\ word.correct_count * MASTERY_SUCCESS_RATE_DEN
               < MASTERY_SUCCESS_RATE_NUM * word.total_attempts THEN FALSE
  ELSE IF word.total_attempts = 0 /\ 0 < MASTERY_SUCCESS_RATE_NUM THEN FALSE
  ELSE TRUE

\* update_word_status whose incorrect branch does not count the attempt
update_word_status_NoAttemptOnError(word, is_correct) ==
  IF is_correct
  THEN LET w1 == [word EXCEPT
                    !.consecutive_correct = @ + 1,
                    !.correct_count = @ + 1,
                    !.total_attempts = @ + 1]
           w2 == IF is_word_mastered(w1)
                 THEN [w1 EXCEPT !.is_mastered = TRUE] ELSE w1
       IN [w2 EXCEPT !.priority_score = Max(1, @ - 20)]
  ELSE [word EXCEPT
          !.consecutive_correct = 0,
          !.incorrect_count = @ + 1,
          !.is_mastered = FALSE,
          !.priority_score = Min(100, @ + 30)]

\* update_word_status that lowers priority_score without the max(1, ...)
update_word_status_NoClamp(word, is_correct) ==
  IF is_correct
  THEN LET w1 == [word EXCEPT
                    !.consecutive_correct = @ + 1,
                    !.correct_count = @ + 1,
                    !.total_attempts = @ + 1]
           w2 == IF is_word_mastered(w1)
                 THEN [w1 EXCEPT !.is_mastered = TRUE] ELSE w1
       IN [w2 EXCEPT !.priority_score = @ - 20]
  ELSE [word EXCEPT
          !.consecutive_correct = 0,
          !.incorrect_count = @ + 1,
          !.total_attempts = @ + 1,
          !.is_mastered = FALSE,
          !.priority_score = Min(100, @ + 30)]

\* update_word_status whose correct branch clears the flag of an item that
\* was mastered already
update_word_status_TogglesMastery(word, is_correct) ==
  IF is_correct
  THEN LET w1 == [word EXCEPT
                    !.consecutive_correct = @ + 1,
                    !.correct_count = @ + 1,
                    !.total_attempts = @ + 1]
           w2 == IF word.is_mastered
                 THEN [w1 EXCEPT !.is_mastered = FALSE]
                 ELSE IF is_word_mastered(w1)
                      THEN [w1 EXCEPT !.is_mastered = TRUE] ELSE w1
       IN [w2 EXCEPT !.priority_score = Max(1, @ - 20)]
  ELSE [word EXCEPT
          !.consecutive_correct = 0,
          !.incorrect_count = @ + 1,
          !.total_attempts = @ + 1,
          !.is_mastered = FALSE,
          !.priority_score = Min(100, @ + 30)]

\* update_word_status whose incorrect branch leaves is_mastered as it was
update_word_status_KeepsMastery(word, is_correct) ==
  IF is_correct
  THEN LET w1 == [word EXCEPT
                    !.consecutive_correct = @ + 1,
                    !.correct_count = @ + 1,
                    !.total_attempts = @ + 1]
           w2 == IF is_word_mastered(w1)
                 THEN [w1 EXCEPT !.is_mastered = TRUE] ELSE w1
       IN [w2 EXCEPT !.priority_score = Max(1, @ - 20)]
  ELSE [word EXCEPT
          !.consecutive_correct = 0,
          !.incorrect_count = @ + 1,
          !.total_attempts = @ + 1,
          !.priority_score = Min(100, @ + 30)]

\* update_word_status that asks for one more correct answer than the streak
\* criterion before it sets is_mastered
update_word_status_LateMastery(word, is_correct) ==
  IF is_correct
  THEN LET w1 == [word EXCEPT
                    !.consecutive_correct = @ + 1,
                    !.correct_count = @ + 1,
                    !.total_attempts = @ + 1]
           w2 == IF is_word_mastered(word)
                 THEN [w1 EXCEPT !.is_mastered = TRUE] ELSE w1
       IN [w2 EXCEPT !.priority_score = Max(1, @ - 20)]
  ELSE [word EXCEPT
          !.consecutive_correct = 0,
          !.incorrect_count = @ + 1,
          !.total_attempts = @ + 1,
          !.is_mastered = FALSE,
          !.priority_score = Min(100, @ + 30)]

update_word_status(word, is_correct) ==
  IF is_correct
  THEN LET w1 == [word EXCEPT
                    !.consecutive_correct = @ + 1,
                    !.correct_count = @ + 1,
                    !.total_attempts = @ + 1]
           w2 == IF is_word_mastered(w1)
                 THEN [w1 EXCEPT !.is_mastered = TRUE] ELSE w1
       IN [w2 EXCEPT !.priority_score = Max(1, @ - 20)]
  ELSE [word EXCEPT
          !.consecutive_correct = 0,
          !.incorrect_count = @ + 1,
          !.total_attempts = @ + 1,
          !.is_mastered = FALSE,
          !.priority_score = Min(100, @ + 30)]

\* sort_key(item): (-int(has_recent_error), -priority_score, total_attempts)
\* sort_key without the total_attempts component
sort_key_IgnoresAttempts(word) ==
  LET has_recent_error ==
        word.incorrect_count > 0 /\ word.consecutive_correct = 0
  IN << (IF has_recent_error THEN -1 ELSE 0), -word.priority_score, 0 >>

\* sort_key without the has_recent_error component
sort_key_NoRecentError(word) ==
  << 0, -word.priority_score, word.total_attempts >>

sort_key(word) ==
  LET has_recent_error ==
        word.incorrect_count > 0 /\ word.consecutive_correct = 0
  IN << (IF has_recent_error THEN -1 ELSE 0),
        -word.priority_score,
        word.total_attempts >>

\* Python's tuple comparison k1 < k2
TupleLess(k1, k2) ==
  \/ k1[1] < k2[1]
  \/ k1[1] = k2[1] /\ k1[2] < k2[2]
  \/ k1[1] = k2[1] /\ k1[2] = k2[2] /\ k1[3] < k2[3]

\* list.sort(key=sort_key) is stable: items[j] comes before items[i] when its
\* key is smaller, or equal and j is the earlier index
SortsBefore(items, words, j, i) ==
  \/ TupleLess(sort_key(words[items[j]]), sort_key(words[items[i]]))
  \/ /\ ~TupleLess(sort_key(words[items[i]]), sort_key(words[items[j]]))
     /\ j < i

SortByKey(items, words) ==
  [p \in 1..Len(items) |->
     items[CHOOSE i \in 1..Len(items) :
             Cardinality({j \in 1..Len(items) :
                            SortsBefore(items, words, j, i)}) = p - 1]]

\* get_next_word_by_priority that sorts every word, mastered or not
get_next_word_by_priority_NoFilter(words, order) ==
  IF order = <<>> THEN None ELSE SortByKey(order, words)[1]

\* words is the dict, order the insertion order of its keys
RECURSIVE get_next_word_by_priority(_, _)
get_next_word_by_priority(words, order) ==
  LET unmastered_words == SelectSeq(order, LAMBDA t : ~words[t].is_mastered)
  IN IF unmastered_words = <<>> THEN None
     ELSE LET sorted == SortByKey(unmastered_words, words)
              selected_word == sorted[1]
          IN IF words[selected_word].is_mastered
             THEN LET keep == SelectSeq(order, LAMBDA t : t # selected_word)
                  IN IF keep # <<>>
                     THEN get_next_word_by_priority(words, keep)
                     ELSE None
             ELSE selected_word

\* is_session_complete with any() in place of all()
is_session_complete_Any(words) ==
  IF DOMAIN words = {} THEN TRUE
  ELSE \E t \in DOMAIN words : words[t].is_mastered

is_session_complete(words) ==
  IF DOMAIN words = {} THEN TRUE
  ELSE \A t \in DOMAIN words : words[t].is_mastered

get_session_progress(words) ==
  LET mastered == Cardinality({t \in DOMAIN words : words[t].is_mastered})
      total == Cardinality(DOMAIN words)
      with_errors ==
        Cardinality({t \in DOMAIN words : words[t].incorrect_count > 0})
  IN [mastered |-> mastered, total |-> total, with_errors |-> with_errors,
      without_errors |-> total - with_errors, remaining |-> total - mastered]

(***************************************************************************)
(* core/learning_session.py                                                *)
(***************************************************************************)
\* keys of {word: Word(text=word) for word in words_list}, insertion order
RECURSIVE DictKeys(_)
DictKeys(lst) ==
  IF lst = <<>> THEN <<>>
  ELSE LET init == DictKeys(SubSeq(lst, 1, Len(lst) - 1))
           x == lst[Len(lst)]
       IN IF \E i \in 1..Len(init) : init[i] = x THEN init
          ELSE Append(init, x)

Range(s) == {s[i] : i \in 1..Len(s)}

\* LearningSession.__init__
LearningSession(user_id, dict_id, session_id, words_list) ==
  [user_id |-> user_id, dict_id |-> dict_id, session_id |-> session_id,
   keys |-> DictKeys(words_list),
   words |-> [t \in Range(words_list) |-> Word(t)],
   current_word |-> None,
   total_words_shown |-> 0,
   stats |-> SessionStats(session_id, user_id, dict_id, Len(words_list))]

\* get_next_word that does not count the question
get_next_word_NoCount(s) ==
  IF is_session_complete(s.words) THEN [session |-> s, value |-> None]
  ELSE LET next_word == get_next_word_by_priority(s.words, s.keys)
       IN IF next_word = None THEN [session |-> s, value |-> None]
          ELSE [session |-> [s EXCEPT !.current_word = next_word],
                value |-> next_word]

\* LearningSession.get_next_word: the session afterwards and the value returned
get_next_word(s) ==
  IF is_session_complete(s.words) THEN [session |-> s, value |-> None]
  ELSE LET next_word == get_next_word_by_priority(s.words, s.keys)
       IN IF next_word = None THEN [session |-> s, value |-> None]
          ELSE [session |-> [s EXCEPT !.current_word = next_word,
                                      !.total_words_shown = @ + 1],
                value |-> next_word]

\* record_answer that counts an incorrect answer in both counters
record_answer_CountsBoth(s, word, is_correct) ==
  IF word \notin DOMAIN s.words THEN [session |-> s, ok |-> FALSE]
  ELSE LET word_obj == update_word_status(s.words[word], is_correct)
           st1 == IF is_correct
                  THEN [s.stats EXCEPT !.correct_answers = @ + 1]
                  ELSE [s.stats EXCEPT !.incorrect_answers = @ + 1,
                                       !.correct_answers = @ + 1]
           st2 == IF word_obj.is_mastered
                       /\ word \notin Range(st1.words_mastered_list)
                  THEN [st1 EXCEPT !.words_mastered_list = Append(@, word),
                                   !.words_mastered = @ + 1]
                  ELSE st1
       IN [session |-> [s EXCEPT !.words[word] = word_obj, !.stats = st2],
           ok |-> TRUE]

\* record_answer that lists a mastered word without counting it
record_answer_NoCount(s, word, is_correct) ==
  IF word \notin DOMAIN s.words THEN [session |-> s, ok |-> FALSE]
  ELSE LET word_obj == update_word_status(s.words[word], is_correct)
           st1 == IF is_correct
                  THEN [s.stats EXCEPT !.correct_answers = @ + 1]
                  ELSE [s.stats EXCEPT !.incorrect_answers = @ + 1]
           st2 == IF word_obj.is_mastered
                       /\ word \notin Range(st1.words_mastered_list)
                  THEN [st1 EXCEPT !.words_mastered_list = Append(@, word)]
                  ELSE st1
       IN [session |-> [s EXCEPT !.words[word] = word_obj, !.stats = st2],
           ok |-> TRUE]

\* record_answer that appends without looking the word up in the list
record_answer_NoMembershipTest(s, word, is_correct) ==
  IF word \notin DOMAIN s.words THEN [session |-> s, ok |-> FALSE]
  ELSE
    LET word_obj == update_word_status(s.words[word], is_correct)
        st1 == IF is_correct
               THEN [s.stats EXCEPT !.correct_answers = @ + 1]
               ELSE [s.stats EXCEPT !.incorrect_answers = @ + 1]
        st2 == IF word_obj.is_mastered
               THEN [st1 EXCEPT
                       !.words_mastered_list = Append(@, word),
                       !.words_mastered = @ + 1]
               ELSE st1
    IN [session |-> [s EXCEPT !.words[word] = word_obj, !.stats = st2],
        ok |-> TRUE]

\* LearningSession.record_answer: the session afterwards and the value returned
record_answer(s, word, is_correct) ==
  IF word \notin DOMAIN s.words THEN [session |-> s, ok |-> FALSE]
  ELSE
    LET word_obj == update_word_status(s.words[word], is_correct)
        st1 == IF is_correct
               THEN [s.stats EXCEPT !.correct_answers = @ + 1]
               ELSE [s.stats EXCEPT !.incorrect_answers = @ + 1]
        st2 == IF word_obj.is_mastered
                  /\ word \notin Range(st1.words_mastered_list)
               THEN [st1 EXCEPT
                       !.words_mastered_list = Append(@, word),
                       !.words_mastered = @ + 1]
               ELSE st1
    IN [session |-> [s EXCEPT !.words[word] = word_obj, !.stats = st2],
        ok |-> TRUE]

\* LearningSession.is_complete
is_complete(s) == is_session_complete(s.words)

\* SessionStats.is_complete
stats_is_complete(stats) == stats.words_mastered >= stats.total_words

\* finish_session that also forgets the current word
finish_session_ForgetsCurrent(s) ==
  LET s1 == [s EXCEPT !.stats.ended_at = "now", !.current_word = None]
  IN [session |-> s1, value |-> s1.stats]

\* LearningSession.finish_session: stats.ended_at = datetime.now(), and the
\* stats object of the session is what it returns
finish_session(s) ==
  LET s1 == [s EXCEPT !.stats.ended_at = "now"]
  IN [session |-> s1, value |-> s1.stats]

(***************************************************************************)
(* utils/file_helpers.py, as session_persistence.py calls it               *)
(***************************************************************************)
\* the files of SESSIONS_DIR: a function from <<user_id, session_id>> to the
\* data written
NoFiles == [k \in {} |-> None]

\* save_json(str(session_file), data): filepath is a str, filepath.parent
\* raises AttributeError inside the try of save_json, which returns False
\* and writes nothing
save_json(files, filepath, data) == [files |-> files, ok |-> FALSE]

\* load_json(str(session_file)): filepath is a str, filepath.exists() raises
\* AttributeError inside the try of load_json, which returns its default
load_json(files, filepath) == None

(***************************************************************************)
(* core/session_persistence.py                                             *)
(***************************************************************************)
\* reading an attribute that Word does not declare raises AttributeError
HasAttr(word_obj, attr) == attr \in WordFields

\* SessionPersistence.save_session: the files afterwards and the value
\* returned.  Building words_stats reads word_obj.times_mastered of every
\* word; the AttributeError is caught and save_session returns False before
\* save_json is called.  The value save_json returns is not looked at.
save_session(files, user_id, s) ==
  IF \E t \in DOMAIN s.words : ~HasAttr(s.words[t], "times_mastered")
  THEN [files |-> files, ok |-> FALSE]
  ELSE LET session_data ==
             [user_id |-> user_id, session_id |-> s.session_id,
              dict_id |-> s.dict_id, words_list |-> s.keys,
              current_word |-> s.current_word, stats |-> s.stats]
           w == save_json(files, <<user_id, s.session_id>>, session_data)
       IN [files |-> w.files, ok |-> TRUE]

\* SessionPersistence.load_session: <<>> for None, <<session>> otherwise.
\* Without a file the result is None.  With one, load_json returns None,
\* session_data['user_id'] raises TypeError, which is caught, and the result
\* is None again.
load_session(files, user_id, session_id) ==
  IF <<user_id, session_id>> \notin DOMAIN files THEN <<>>
  ELSE LET session_data == load_json(files, <<user_id, session_id>>)
       IN IF session_data = None THEN <<>>
          ELSE << [LearningSession(session_data.user_id, session_data.dict_id,
                                   session_data.session_id,
                                   session_data.words_list)
                     EXCEPT !.current_word = session_data.current_word] >>

\* SessionPersistence.load_all_sessions_for_user: the dict it returns.  For
\* every file of the user, load_json(str(session_file)) is called; when it
\* returns None, session_data.get raises AttributeError, which the except of
\* the loop catches, and the file is skipped.
load_all_sessions_for_user(files, user_id) ==
  LET pattern == {k \in DOMAIN files : k[1] = user_id}
      session_id(k) == load_json(files, k).session_id
      found == {k \in pattern :
                  /\ load_json(files, k) # None
                  /\ session_id(k) # None
                  /\ load_session(files, user_id, session_id(k)) # <<>>}
  IN [sid \in {session_id(k) : k \in found}
        |-> load_session(files, user_id, sid)[1]]

(***************************************************************************)
(* core/progress_tracker.py                                                *)
(***************************************************************************)
EmptyDict == [k \in {} |-> None]

WordProgress(word) ==
  [word |-> word, total_correct |-> 0, total_incorrect |-> 0,
   times_mastered |-> 0]

UserProgress(user_id) ==
  [user_id |-> user_id, total_words_learned |-> 0, total_sessions |-> 0,
   total_attempts |-> 0, total_correct |-> 0, total_incorrect |-> 0,
   dictionaries_progress |-> EmptyDict]

\* dict.get(key, default)
DictGet(d, key, default) == IF key \in DOMAIN d THEN d[key] ELSE default

\* d[key] = value on a dict
DictSet(d, key, value) ==
  [k \in DOMAIN d \cup {key} |-> IF k = key THEN value ELSE d[k]]

\* ProgressTracker._load_progress: the file is read with
\* load_json(str(self.progress_file)); when that gives nothing the tracker
\* starts from UserProgress(user_id), as it does without a file.
load_progress(files, user_id) ==
  IF user_id \in DOMAIN files
  THEN LET data == load_json(files, user_id)
       IN IF data # None THEN data ELSE UserProgress(user_id)
  ELSE UserProgress(user_id)

\* ProgressTracker._save_progress: save_json(str(self.progress_file), ...);
\* the value save_json returns is not looked at and the result is True.
save_progress(files, user_id, p) ==
  LET w == save_json(files, user_id, p)
  IN [files |-> w.files, ok |-> TRUE]

\* update_word_progress that counts every mastered call as a learned word
update_word_progress_CountsEveryMastery(files, p, dict_id, word, is_correct, is_mastered) ==
  LET dp0 == DictGet(p.dictionaries_progress, dict_id, EmptyDict)
      wp0 == DictGet(dp0, word, WordProgress(word))
      wp1 == IF is_correct
             THEN [wp0 EXCEPT !.total_correct = @ + 1]
             ELSE [wp0 EXCEPT !.total_incorrect = @ + 1]
      wp2 == IF is_mastered THEN [wp1 EXCEPT !.times_mastered = @ + 1]
             ELSE wp1
      p1 == [p EXCEPT
               !.dictionaries_progress =
                  DictSet(@, dict_id, DictSet(dp0, word, wp2)),
               !.total_attempts = @ + 1,
               !.total_correct = IF is_correct THEN @ + 1 ELSE @,
               !.total_incorrect = IF is_correct THEN @ ELSE @ + 1,
               !.total_words_learned = IF is_mastered THEN @ + 1 ELSE @]
      w == save_progress(files, p.user_id, p1)
  IN [progress |-> p1, files |-> w.files, ok |-> w.ok]

\* ProgressTracker.update_word_progress
update_word_progress(files, p, dict_id, word, is_correct, is_mastered) ==
  LET dp0 == DictGet(p.dictionaries_progress, dict_id, EmptyDict)
      wp0 == DictGet(dp0, word, WordProgress(word))
      wp1 == IF is_correct
             THEN [wp0 EXCEPT !.total_correct = @ + 1]
             ELSE [wp0 EXCEPT !.total_incorrect = @ + 1]
      wp2 == IF is_mastered /\ wp1.times_mastered = 0
             THEN [wp1 EXCEPT !.times_mastered = 1]
             ELSE IF is_mastered
                  THEN [wp1 EXCEPT !.times_mastered = @ + 1]
                  ELSE wp1
      p1 == [p EXCEPT
               !.dictionaries_progress =
                  DictSet(@, dict_id, DictSet(dp0, word, wp2)),
               !.total_attempts = @ + 1,
               !.total_correct = IF is_correct THEN @ + 1 ELSE @,
               !.total_incorrect = IF is_correct THEN @ ELSE @ + 1,
               !.total_words_learned =
                  IF is_mastered /\ wp2.times_mastered = 1
                  THEN @ + 1 ELSE @]
      w == save_progress(files, p.user_id, p1)
  IN [progress |-> p1, files |-> w.files, ok |-> w.ok]

\* the words of the list that the loop of update_session_stats counts
CountedAsLearned(p, dict_id, words_mastered) ==
  LET dict_progress == DictGet(p.dictionaries_progress, dict_id, EmptyDict)
  IN { i \in 1..Len(words_mastered) :
         /\ words_mastered[i] \in DOMAIN dict_progress
         /\ dict_progress[words_mastered[i]].times_mastered = 1 }

\* ProgressTracker.update_session_stats
update_session_stats(files, p, dict_id, correct, incorrect, mastered) ==
  LET p1 == [p EXCEPT
               !.total_sessions = @ + 1,
               !.total_correct = @ + correct,
               !.total_incorrect = @ + incorrect,
               !.total_words_learned =
                  @ + Cardinality(CountedAsLearned(p, dict_id, mastered))]
      w == save_progress(files, p.user_id, p1)
  IN [progress |-> p1, files |-> w.files, ok |-> w.ok]

\* finish_learning_session, the progress part: a tracker is built for the
\* user (which loads the file) and update_session_stats is called on it
record_finished_session(files, user_id, dict_id, correct, incorrect, mastered) ==
  update_session_stats(files, load_progress(files, user_id), dict_id,
                       correct, incorrect, mastered)

\* the quotient num / den of a true division, kept as the pair
Ratio(num, den) == [num |-> num, den |-> den]

\* ProgressTracker.get_total_progress: success_rate is
\* total_correct / total_attempts * 100, and 0 without attempts
get_total_progress(p) ==
  LET total_attempts == p.total_attempts
      total_correct == p.total_correct
      success_rate == IF total_attempts > 0
                      THEN Ratio(total_correct * 100, total_attempts)
                      ELSE Ratio(0, 1)
  IN [total_sessions |-> p.total_sessions,
      total_words_learned |-> p.total_words_learned,
      total_attempts |-> total_attempts,
      total_correct |-> total_correct,
      total_incorrect |-> p.total_incorrect,
      success_rate |-> success_rate]

\* sum(...) over the values of a dict of numbers
RECURSIVE DictSum(_)
DictSum(d) ==
  IF DOMAIN d = {} THEN 0
  ELSE LET k == CHOOSE x \in DOMAIN d : TRUE
       IN d[k] + DictSum([x \in DOMAIN d \ {k} |-> d[x]])

\* ProgressTracker.get_dictionary_progress
get_dictionary_progress(p, dict_id) ==
  LET dict_progress == DictGet(p.dictionaries_progress, dict_id, EmptyDict)
      total_attempts ==
        DictSum([w \in DOMAIN dict_progress |->
                   dict_progress[w].total_correct
                     + dict_progress[w].total_incorrect])
      total_correct ==
        DictSum([w \in DOMAIN dict_progress |->
                   dict_progress[w].total_correct])
      total_incorrect ==
        DictSum([w \in DOMAIN dict_progress |->
                   dict_progress[w].total_incorrect])
  IN IF DOMAIN dict_progress = {}
     THEN [total_words |-> 0, words_mastered |-> 0,
           success_rate |-> Ratio(0, 1), total_attempts |-> 0,
           total_correct |-> 0, total_incorrect |-> 0]
     ELSE [total_words |-> Cardinality(DOMAIN dict_progress),
           words_mastered |->
             Cardinality({w \in DOMAIN dict_progress :
                            dict_progress[w].times_mastered > 0}),
           success_rate |-> IF total_attempts > 0
                            THEN Ratio(total_correct * 100, total_attempts)
                            ELSE Ratio(0, 1),
           total_attempts |-> total_attempts,
           total_correct |-> total_correct,
           total_incorrect |-> total_incorrect]

(***************************************************************************)
(* bot/handlers/learning_handler.py and bot/handlers/start_handler.py      *)
(*                                                                         *)
(* A handler is a task that runs from one await to the next without being  *)
(* interleaved; b is the state the handlers share and p the task.  The     *)
(* operators below give the state after the next such run of p.            *)
(***************************************************************************)
\* state.clear()
ClearedFSM ==
  [state |-> None, paused_session_id |-> None, message_id |-> <<None, 0>>]

Idle == [handler |-> None, pc |-> "idle", user_id |-> 0, session_id |-> None,
         word |-> None, is_correct |-> FALSE, ref |-> None,
         question |-> <<None, 0>>]

NoReport == [task |-> None, handler |-> None, user_id |-> 0,
             session_id |-> None, ref |-> None, outcome |-> None]

\* del d[key]
DictDel(d, key) == [k \in DOMAIN d \ {key} |-> d[k]]

\* SessionPersistence.delete_session
delete_session(files, user_id, session_id) ==
  IF <<user_id, session_id>> \in DOMAIN files
  THEN [files |-> DictDel(files, <<user_id, session_id>>), ok |-> TRUE]
  ELSE [files |-> files, ok |-> FALSE]

\* leaving `async with session_resume_locks[session_id]`
ReleaseLocks(locks, p) ==
  [sid \in DOMAIN locks |-> IF locks[sid] = p THEN None ELSE locks[sid]]

\* the handler of task p returns after telling the user `outcome`
Return(b, p, outcome) ==
  [b EXCEPT
     !.session_resume_locks = ReleaseLocks(@, p),
     !.tasks[p] = Idle,
     !.reported = [task |-> p, handler |-> b.tasks[p].handler,
                   user_id |-> b.tasks[p].user_id,
                   session_id |-> b.tasks[p].session_id,
                   ref |-> b.tasks[p].ref, outcome |-> outcome]]

Goto(b, p, pc) == [b EXCEPT !.tasks[p].pc = pc]

\* finish_learning_session after `await bot.send_message(summary)`:
\* del active_sessions[user_id] (a KeyError goes to the except branch),
\* state.clear() and SessionPersistence.delete_session
finish_after_summary_KeepsEntry(b, p) ==
  LET u == b.tasks[p].user_id
  IN IF u \notin DOMAIN b.active_sessions
     THEN Return(b, p, "finish_error")
     ELSE Return([b EXCEPT
                    !.fsm[u] = ClearedFSM,
                    !.store = delete_session(@, u, b.tasks[p].ref).files],
                 p, "finished")

finish_after_summary(b, p) ==
  LET u == b.tasks[p].user_id
  IN IF u \notin DOMAIN b.active_sessions
     THEN Return(b, p, "finish_error")
     ELSE Return([b EXCEPT
                    !.active_sessions = DictDel(@, u),
                    !.fsm[u] = ClearedFSM,
                    !.store = delete_session(@, u, b.tasks[p].ref).files],
                 p, "finished")

\* finish_learning_session up to `await bot.send_message(summary)`
finish_learning_session(b, p) ==
  LET u == b.tasks[p].user_id
  IN IF u \notin DOMAIN b.active_sessions
     THEN Return(b, p, "session_lost")
     ELSE LET sid == b.active_sessions[u]
              s == finish_session(b.objects[sid]).session
              r == record_finished_session(
                     b.progress_files, u, s.dict_id,
                     s.stats.correct_answers, s.stats.incorrect_answers,
                     s.stats.words_mastered_list)
          IN [b EXCEPT !.objects[sid] = s,
                       !.progress_files = r.files,
                       !.tasks[p].pc = "finish_summary",
                       !.tasks[p].ref = sid]

\* show_next_word up to the await that sends the question
show_next_word(b, p) ==
  LET u == b.tasks[p].user_id
  IN IF b.fsm[u].state \notin {"in_session", "waiting_for_answer"}
     THEN Return(b, p, "wrong_state")
     ELSE IF u \notin DOMAIN b.active_sessions
     THEN Return(b, p, "session_lost")
     ELSE LET sid == b.active_sessions[u]
              r == get_next_word(b.objects[sid])
              b1 == [b EXCEPT !.objects[sid] = r.session]
          IN IF r.value = None
             THEN finish_learning_session(b1, p)
             ELSE [b1 EXCEPT
                     !.tasks[p].pc = "show_sent",
                     !.tasks[p].question =
                        <<sid, r.session.total_words_shown>>]

\* show_next_word after the question was sent: set_state and
\* update_data(message_id=msg.message_id)
show_sent(b, p) ==
  LET u == b.tasks[p].user_id
  IN Return([b EXCEPT !.fsm[u].state = "waiting_for_answer",
                      !.fsm[u].message_id = b.tasks[p].question],
            p, "shown")

\* show_next_word when the question cannot be sent: there are no variants or
\* no keyboard for the word, or the send raises; the learner is told of the
\* error and show_next_word returns without set_state
show_failed(b, p) == Return(b, p, "show_error")

\* callback_start_learning up to `await state.set_state(in_session)`;
\* session_id is the uuid LearningSession.__init__ draws
callback_start_learning(b, p, user_id, dict_id, words_list, session_id) ==
  [b EXCEPT
     !.objects = DictSet(@, session_id,
                         LearningSession(user_id, dict_id, session_id,
                                         words_list)),
     !.created = @ \cup {session_id},
     !.active_sessions = DictSet(@, user_id, session_id),
     !.tasks[p] = [Idle EXCEPT !.handler = "start_learning",
                               !.pc = "start_set_state",
                               !.user_id = user_id]]

\* callback_start_learning from set_state to the call of show_next_word
start_set_state(b, p) ==
  LET u == b.tasks[p].user_id
  IN Goto([b EXCEPT !.fsm[u].state = "in_session"], p, "show")

\* callback_handle_answer up to `await callback.answer()`; the button is on
\* the message of the last question sent, which is a question of a session
\* and its number in it
callback_handle_answer(b, p, user_id, word, is_correct) ==
  [b EXCEPT
     !.tasks[p] = [Idle EXCEPT !.handler = "handle_answer",
                               !.pc = "answer_check",
                               !.user_id = user_id, !.word = word,
                               !.is_correct = is_correct,
                               !.question = b.fsm[user_id].message_id]]

\* set_state(in_session) and the early test of the session, up to the
\* await that deletes the voice message
answer_set(b, p) ==
  LET u == b.tasks[p].user_id
  IN IF u \notin DOMAIN b.active_sessions
     THEN Return([b EXCEPT !.fsm[u] = ClearedFSM], p, "session_lost")
     ELSE [b EXCEPT !.fsm[u].state = "in_session",
                    !.tasks[p].pc = "answer_record",
                    !.tasks[p].ref = b.active_sessions[u]]

\* the test of the FSM state after `await callback.answer()`.  The storage
\* is a MemoryStorage, whose get_state and set_state do not suspend, so the
\* test and set_state(in_session) run without another task in between.
answer_check(b, p) ==
  LET u == b.tasks[p].user_id
  IN IF b.fsm[u].state # "waiting_for_answer"
     THEN Return(b, p, "duplicate")
     ELSE answer_set(b, p)

\* the comparison with get_current_word() and session.record_answer
answer_record(b, p) ==
  LET sid == b.tasks[p].ref
      s == b.objects[sid]
  IN IF b.tasks[p].word # s.current_word
     THEN Return(b, p, "word_changed")
     ELSE LET r == record_answer(s, b.tasks[p].word, b.tasks[p].is_correct)
          IN Goto([b EXCEPT !.objects[sid] = r.session], p,
                  "answer_feedback")

\* after the feedback was sent: finish, or a new task for show_next_word
answer_feedback(b, p) ==
  IF is_complete(b.objects[b.tasks[p].ref])
  THEN finish_learning_session(b, p)
  ELSE [b EXCEPT !.tasks[p].pc = "show", !.tasks[p].ref = None]

\* callback_pause_session up to `await state.update_data(...)`
callback_pause_session(b, p, user_id, session_id) ==
  LET b1 == [b EXCEPT
               !.tasks[p] = [Idle EXCEPT !.handler = "pause_session",
                                         !.user_id = user_id,
                                         !.session_id = session_id]]
  IN IF user_id \notin DOMAIN b.active_sessions
     THEN Return(b1, p, "session_not_found")
     ELSE IF b.active_sessions[user_id] # session_id
     THEN Return(b1, p, "id_mismatch")
     ELSE [b1 EXCEPT !.fsm[user_id].paused_session_id = session_id,
                     !.tasks[p].pc = "pause_delete",
                     !.tasks[p].ref = session_id]

\* callback_pause_session from `del active_sessions[user_id]` on: the
\* session is saved after it was removed, what save_session returns is not
\* looked at, and the paused keyboard is sent with "session saved"
pause_delete(b, p) ==
  LET u == b.tasks[p].user_id
  IN IF u \notin DOMAIN b.active_sessions
     THEN Return(b, p, "pause_error")
     ELSE Return([b EXCEPT
                    !.active_sessions = DictDel(@, u),
                    !.store = save_session(@, u,
                                           b.objects[b.tasks[p].ref]).files,
                    !.fsm[u].state = "session_paused",
                    !.keyboards = @ \cup {b.tasks[p].ref}],
                 p, "paused")

\* start_handler.callback_pause_and_menu: the coroutine save_session(...)
\* is created and never awaited, so nothing is saved
callback_pause_and_menu(b, p, user_id) ==
  LET b1 == [b EXCEPT
               !.tasks[p] =
                  [Idle EXCEPT !.handler = "pause_and_menu",
                               !.user_id = user_id,
                               !.ref = DictGet(b.active_sessions, user_id,
                                               None)]]
  IN Return([b1 EXCEPT !.active_sessions = DictDel(@, user_id),
                       !.fsm[user_id] = ClearedFSM],
            p, "paused")

\* callback_resume_session right after the lock was acquired
resume_locked(b, p) ==
  LET u == b.tasks[p].user_id
      b1 == [b EXCEPT
               !.session_resume_locks =
                  DictSet(@, b.tasks[p].session_id, p)]
  IN IF u \in DOMAIN b.active_sessions
     THEN Goto(b1, p, "resume_reject")
     ELSE Goto(b1, p, "resume_get_data")

\* callback_resume_session that enters without looking at the lock
callback_resume_session_NoLock(b, p, user_id, session_id) ==
  LET b1 == [b EXCEPT
               !.tasks[p] = [Idle EXCEPT !.handler = "resume_session",
                                         !.pc = "resume_wait",
                                         !.user_id = user_id,
                                         !.session_id = session_id],
               !.session_resume_locks =
                  IF session_id \in DOMAIN @ THEN @
                  ELSE DictSet(@, session_id, None)]
  IN resume_locked(b1, p)

\* callback_resume_session up to its first await: the lock is created when
\* there is none, and taken when it is free
callback_resume_session(b, p, user_id, session_id) ==
  LET b1 == [b EXCEPT
               !.tasks[p] = [Idle EXCEPT !.handler = "resume_session",
                                         !.pc = "resume_wait",
                                         !.user_id = user_id,
                                         !.session_id = session_id],
               !.session_resume_locks =
                  IF session_id \in DOMAIN @ THEN @
                  ELSE DictSet(@, session_id, None)]
  IN IF b1.session_resume_locks[session_id] = None
     THEN resume_locked(b1, p)
     ELSE b1

\* resume_get_data that starts a fresh session when load_session gives none
resume_get_data_Fabricates(b, p) ==
  LET u == b.tasks[p].user_id
      sid == b.tasks[p].session_id
      l == load_session(b.store, u, sid)
      fresh == LearningSession(u, CHOOSE d \in DictIds : TRUE, sid,
                               CHOOSE words_list \in BotWordLists : TRUE)
  IN IF b.fsm[u].paused_session_id = None
     THEN Goto(b, p, "resume_no_data")
     ELSE [b EXCEPT
             !.objects = DictSet(@, sid, IF l = <<>> THEN fresh ELSE l[1]),
             !.active_sessions = DictSet(@, u, sid),
             !.tasks[p].pc = "resume_registered"]

\* callback_resume_session after `await state.get_data()`: the test of
\* paused_session_data, load_session and the registration
resume_get_data(b, p) ==
  LET u == b.tasks[p].user_id
      l == load_session(b.store, u, b.tasks[p].session_id)
  IN IF b.fsm[u].paused_session_id = None
     THEN Goto(b, p, "resume_no_data")
     ELSE IF l = <<>>
     THEN Goto(b, p, "resume_not_found")
     ELSE [b EXCEPT
             !.objects = DictSet(@, l[1].session_id, l[1]),
             !.active_sessions = DictSet(@, u, l[1].session_id),
             !.tasks[p].pc = "resume_registered"]

\* after the alert for missing paused_session_data: state.clear(), return
resume_no_data(b, p) ==
  LET u == b.tasks[p].user_id
  IN Return([b EXCEPT !.fsm[u] = ClearedFSM], p, "paused_data_lost")

\* after the alert for a session load_session did not give: state.clear(),
\* return
resume_not_found(b, p) ==
  LET u == b.tasks[p].user_id
  IN Return([b EXCEPT !.fsm[u] = ClearedFSM], p, "session_not_found")

\* after the registration: set_state(in_session), then show_next_word
resume_registered(b, p) ==
  LET u == b.tasks[p].user_id
  IN Goto([b EXCEPT !.fsm[u].state = "in_session"], p, "show")

\* a timeout that cancels nothing
resume_timeout_NoCancel(b, p) == b

\* asyncio.timeout(30) expires: the task is cancelled at the await it is
\* at, leaves the lock, and the except branch reports the timeout
resume_timeout(b, p) == Return(b, p, "timeout")

\* callback_end_paused_session up to `await state.get_data()`
callback_end_paused_session(b, p, user_id, session_id) ==
  [b EXCEPT
     !.tasks[p] = [Idle EXCEPT !.handler = "end_paused_session",
                               !.pc = "end_get_data",
                               !.user_id = user_id,
                               !.session_id = session_id]]

\* state.clear() and delete_session for the paused_session_id of the FSM
end_get_data(b, p) ==
  LET u == b.tasks[p].user_id
      paused_session_id == b.fsm[u].paused_session_id
  IN Return([b EXCEPT
               !.fsm[u] = ClearedFSM,
               !.store = IF paused_session_id # None
                         THEN delete_session(@, u, paused_session_id).files
                         ELSE @],
            p, "ended")

\* the run of task p from the await it is at to its next await
Continue(b, p) ==
  CASE b.tasks[p].pc = "start_set_state" -> start_set_state(b, p)
    [] b.tasks[p].pc = "show" -> show_next_word(b, p)
    [] b.tasks[p].pc = "show_sent" -> show_sent(b, p)
    [] b.tasks[p].pc = "answer_check" -> answer_check(b, p)
    [] b.tasks[p].pc = "answer_record" -> answer_record(b, p)
    [] b.tasks[p].pc = "answer_feedback" -> answer_feedback(b, p)
    [] b.tasks[p].pc = "finish_summary" -> finish_after_summary(b, p)
    [] b.tasks[p].pc = "pause_delete" -> pause_delete(b, p)
    [] b.tasks[p].pc = "resume_wait" -> resume_locked(b, p)
    [] b.tasks[p].pc = "resume_reject" -> Return(b, p, "already_active")
    [] b.tasks[p].pc = "resume_get_data" -> resume_get_data(b, p)
    [] b.tasks[p].pc = "resume_no_data" -> resume_no_data(b, p)
    [] b.tasks[p].pc = "resume_not_found" -> resume_not_found(b, p)
    [] b.tasks[p].pc = "resume_registered" -> resume_registered(b, p)
    [] b.tasks[p].pc = "end_get_data" -> end_get_data(b, p)

\* task p can run: a task waiting for a lock runs when the lock is free
Runnable(b, p) ==
  /\ b.tasks[p].pc # "idle"
  /\ b.tasks[p].pc = "resume_wait"
       => b.session_resume_locks[b.tasks[p].session_id] = None
  /\ b.tasks[p].pc = "show"
       => \A u \in DOMAIN b.active_sessions :
            b.objects[b.active_sessions[u]].total_words_shown < MaxBotShown

(***************************************************************************)
(* The state machine                                                       *)
(***************************************************************************)
NoRet == [op |-> "init", word |-> None, is_correct |-> FALSE,
          value |-> None, ok |-> FALSE]

NoCall == [op |-> "init", user_id |-> 0, dict_id |-> None, word |-> None,
           is_correct |-> FALSE, is_mastered |-> FALSE,
           correct_count |-> 0, incorrect_count |-> 0,
           words_mastered |-> <<>>, ok |-> FALSE]

\* no progress.json exists and a tracker was built for the user
InitTracker ==
  /\ progress_files = NoFiles
  /\ \E u \in UserIds : progress = load_progress(progress_files, u)
  /\ tcall = NoCall

NoListing == [user_id |-> 0, sessions |-> EmptyDict]

\* a session on words_list was created and nothing was called on it
InitSession(words_list) ==
  /\ \E u \in UserIds, d \in DictIds, sid \in SessionIds :
       session = LearningSession(u, d, sid, words_list)
  /\ ret = NoRet
  /\ store = NoFiles
  /\ loaded = <<>>
  /\ listed = NoListing
  /\ drill = FALSE

\* the handler module was imported: no session, no lock, no task
InitBot ==
  /\ active_sessions = EmptyDict
  /\ objects = EmptyDict
  /\ fsm = [u \in UserIds |-> ClearedFSM]
  /\ session_resume_locks = EmptyDict
  /\ tasks = [p \in ProcIds |-> Idle]
  /\ keyboards = {}
  /\ created = {}
  /\ reported = NoReport

Init ==
  /\ \E words_list \in WordLists : InitSession(words_list)
  /\ InitTracker
  /\ InitBot

Answers(s) == s.stats.correct_answers + s.stats.incorrect_answers

GetNextWord ==
  LET r == get_next_word(session)
  IN /\ r.value # None => session.total_words_shown < MaxShown
     /\ session' = r.session
     /\ ret' = [NoRet EXCEPT !.op = "get_next_word", !.value = r.value]
     /\ UNCHANGED <<store, loaded, listed, drill>>
     /\ UNCHANGED trackerVars
     /\ UNCHANGED botVars

\* a call of session.record_answer(word, is_correct)
RecordAnswerCall(word, is_correct) ==
  LET r == record_answer(session, word, is_correct)
  IN /\ r.ok => Answers(session) < MaxAnswers
     /\ session' = r.session
     /\ ret' = [NoRet EXCEPT !.op = "record_answer", !.word = word,
                             !.is_correct = is_correct, !.ok = r.ok]
     /\ UNCHANGED <<store, loaded, listed, drill>>
     /\ UNCHANGED trackerVars
     /\ UNCHANGED botVars

\* record_answer as the class offers it: any text, any outcome
RecordAnswer ==
  \E word \in Texts, is_correct \in BOOLEAN :
    RecordAnswerCall(word, is_correct)

\* record_answer as callback_handle_answer calls it: only for the word that
\* get_current_word() returns
RecordAnswerCurrent ==
  \E is_correct \in BOOLEAN :
    /\ session.current_word # None
    /\ RecordAnswerCall(session.current_word, is_correct)

SaveSession ==
  LET r == save_session(store, session.user_id, session)
  IN /\ store' = r.files
     /\ ret' = [NoRet EXCEPT !.op = "save_session", !.ok = r.ok]
     /\ UNCHANGED <<session, loaded, listed, drill>>
     /\ UNCHANGED trackerVars
     /\ UNCHANGED botVars

LoadSession ==
  \E u \in UserIds, sid \in SessionIds :
    /\ loaded' = load_session(store, u, sid)
    /\ ret' = [NoRet EXCEPT !.op = "load_session",
                            !.ok = (load_session(store, u, sid) # <<>>)]
    /\ UNCHANGED <<session, store, listed, drill>>
    /\ UNCHANGED trackerVars
    /\ UNCHANGED botVars

Next == GetNextWord \/ RecordAnswer \/ SaveSession \/ LoadSession

Spec == Init /\ [][Next]_vars

\* the session driven as the answer handler drives it
NextCurrentOnly ==
  GetNextWord \/ RecordAnswerCurrent \/ SaveSession \/ LoadSession

SpecCurrentOnly == Init /\ [][NextCurrentOnly]_vars

\* from now on every question get_next_word returns is answered correctly
StartDrill ==
  /\ ~drill
  /\ drill' = TRUE
  /\ UNCHANGED <<session, ret, store, loaded, listed>>
  /\ UNCHANGED trackerVars
  /\ UNCHANGED botVars

\* get_next_word returned a question that has no answer yet
QuestionPending == ret.op = "get_next_word" /\ ret.value # None

\* show_next_word: the next call of get_next_word
DrillNextWord ==
  /\ drill
  /\ ~QuestionPending
  /\ \E r \in {get_next_word(session)} :
       /\ session' = r.session
       /\ ret' = [NoRet EXCEPT !.op = "get_next_word", !.value = r.value]
  /\ UNCHANGED <<store, loaded, listed, drill>>
  /\ UNCHANGED trackerVars
  /\ UNCHANGED botVars

\* the correct answer to the question on display
DrillAnswer ==
  /\ drill
  /\ QuestionPending
  /\ Answers(session) < MaxDrillAnswers
  /\ \E r \in {record_answer(session, session.current_word, TRUE)} :
       /\ session' = r.session
       /\ ret' = [NoRet EXCEPT !.op = "record_answer",
                               !.word = session.current_word,
                               !.is_correct = TRUE, !.ok = r.ok]
  /\ UNCHANGED <<store, loaded, listed, drill>>
  /\ UNCHANGED trackerVars
  /\ UNCHANGED botVars

\* any answers first, then correct answers only
NextDrill ==
  \/ ~drill /\ GetNextWord
  \/ ~drill /\ RecordAnswerCurrent
  \/ StartDrill
  \/ DrillNextWord
  \/ DrillAnswer

\* the handlers go on asking and the learner goes on answering
SpecDrillFair ==
  /\ Init
  /\ [][NextDrill]_vars
  /\ WF_vars(DrillNextWord)
  /\ WF_vars(DrillAnswer)

\* a call of SessionPersistence.load_all_sessions_for_user(user_id)
LoadAllSessions ==
  \E u \in UserIds :
    /\ listed' = [user_id |-> u,
                  sessions |-> load_all_sessions_for_user(store, u)]
    /\ ret' = [NoRet EXCEPT !.op = "load_all_sessions_for_user", !.ok = TRUE]
    /\ UNCHANGED <<session, store, loaded, drill>>
    /\ UNCHANGED trackerVars
    /\ UNCHANGED botVars

\* a file of data/temp_sessions as an earlier run or another process left
\* it: the record of a session, parseable or not
SessionFile(user_id, session_id, valid_json) ==
  LET s == LearningSession(user_id, "d1", session_id, <<"korova">>)
  IN [valid_json |-> valid_json,
      data |-> [user_id |-> user_id, session_id |-> session_id,
                dict_id |-> s.dict_id, words_list |-> s.keys,
                current_word |-> s.current_word, stats |-> s.stats]]

\* the contents data/temp_sessions can have when the program starts
Directories ==
  LET names == {<<u, sid>> : u \in UserIds, sid \in BotSessionIds}
  IN UNION { { [k \in present |->
                  SessionFile(k[1], k[2], k \in valid)] :
               valid \in SUBSET present } :
             present \in SUBSET names }

\* a session was created while data/temp_sessions holds files
InitDirectory ==
  /\ \E u \in UserIds, d \in DictIds, sid \in SessionIds :
       session = LearningSession(u, d, sid, <<"korova">>)
  /\ ret = NoRet
  /\ store \in Directories
  /\ loaded = <<>>
  /\ listed = NoListing
  /\ drill = FALSE
  /\ InitTracker
  /\ InitBot

NextListAll ==
  GetNextWord \/ RecordAnswerCurrent \/ SaveSession \/ LoadSession
    \/ LoadAllSessions

SpecListAll == InitDirectory /\ [][NextListAll]_vars

\* a call of session.finish_session()
FinishSession ==
  LET r == finish_session(session)
  IN /\ session' = r.session
     /\ ret' = [NoRet EXCEPT !.op = "finish_session", !.ok = TRUE]
     /\ UNCHANGED <<store, loaded, listed, drill>>
     /\ UNCHANGED trackerVars
     /\ UNCHANGED botVars

\* the session as the handlers drive it, finish_session included
NextWithFinish ==
  GetNextWord \/ RecordAnswerCurrent \/ FinishSession

SpecWithFinish == Init /\ [][NextWithFinish]_vars

(***************************************************************************)
(* The progress tracker under its calls                                    *)
(***************************************************************************)
\* ProgressTracker(user_id)
NewTracker ==
  \E u \in UserIds :
    /\ progress' = load_progress(progress_files, u)
    /\ tcall' = [NoCall EXCEPT !.op = "new", !.user_id = u]
    /\ UNCHANGED progress_files
    /\ UNCHANGED sessionVars
    /\ UNCHANGED botVars

UpdateWordProgress ==
  \E dict_id \in DictIds, word \in Texts,
     is_correct \in BOOLEAN, is_mastered \in BOOLEAN :
    LET r == update_word_progress(progress_files, progress, dict_id, word,
                                  is_correct, is_mastered)
    IN /\ progress.total_attempts < MaxWordUpdates
       /\ progress' = r.progress
       /\ progress_files' = r.files
       /\ tcall' = [NoCall EXCEPT
                      !.op = "update_word_progress",
                      !.user_id = progress.user_id, !.dict_id = dict_id,
                      !.word = word, !.is_correct = is_correct,
                      !.is_mastered = is_mastered, !.ok = r.ok]
       /\ UNCHANGED sessionVars
       /\ UNCHANGED botVars

UpdateSessionStats ==
  \E dict_id \in DictIds, counts \in SessionCounts,
     words_mastered \in MasteredLists :
    LET r == update_session_stats(progress_files, progress, dict_id,
                                  counts[1], counts[2], words_mastered)
    IN /\ progress.total_sessions < MaxTrackerSessions
       /\ progress' = r.progress
       /\ progress_files' = r.files
       /\ tcall' = [NoCall EXCEPT
                      !.op = "update_session_stats",
                      !.user_id = progress.user_id, !.dict_id = dict_id,
                      !.correct_count = counts[1],
                      !.incorrect_count = counts[2],
                      !.words_mastered = words_mastered, !.ok = r.ok]
       /\ UNCHANGED sessionVars
       /\ UNCHANGED botVars

\* the progress part of finish_learning_session, on a tracker of its own
RecordFinishedSession ==
  \E u \in UserIds, dict_id \in DictIds, counts \in SessionCounts,
     words_mastered \in MasteredLists :
    LET r == record_finished_session(progress_files, u, dict_id,
                                     counts[1], counts[2], words_mastered)
    IN /\ progress_files' = r.files
       /\ tcall' = [NoCall EXCEPT
                      !.op = "finish_learning_session",
                      !.user_id = u, !.dict_id = dict_id,
                      !.correct_count = counts[1],
                      !.incorrect_count = counts[2],
                      !.words_mastered = words_mastered, !.ok = r.ok]
       /\ UNCHANGED progress
       /\ UNCHANGED sessionVars
       /\ UNCHANGED botVars

NextTracker ==
  NewTracker \/ UpdateWordProgress \/ UpdateSessionStats
    \/ RecordFinishedSession

InitTrackerOnly == InitSession(<<"korova">>) /\ InitTracker /\ InitBot

SpecTracker == InitTrackerOnly /\ [][NextTracker]_vars


(***************************************************************************)
(* The handlers as tasks of the event loop                                 *)
(***************************************************************************)
\* the state the handlers share
Bot ==
  [active_sessions |-> active_sessions, objects |-> objects, fsm |-> fsm,
   session_resume_locks |-> session_resume_locks, tasks |-> tasks,
   keyboards |-> keyboards, created |-> created, reported |-> reported,
   store |-> store, progress_files |-> progress_files]

\* the session objects something still refers to
Referenced(b) ==
  {b.active_sessions[u] : u \in DOMAIN b.active_sessions}
    \cup {b.tasks[p].ref : p \in ProcIds}

\* the shared state becomes b; objects nothing refers to are gone
Install(b) ==
  /\ active_sessions' = b.active_sessions
  /\ objects' = [sid \in DOMAIN b.objects \cap Referenced(b)
                   |-> b.objects[sid]]
  /\ fsm' = b.fsm
  /\ session_resume_locks' = b.session_resume_locks
  /\ tasks' = b.tasks
  /\ keyboards' = b.keyboards
  /\ created' = b.created
  /\ reported' = b.reported
  /\ store' = b.store
  /\ progress_files' = b.progress_files
  /\ UNCHANGED <<session, ret, loaded, listed, drill, progress, tcall>>

\* the event loop runs task p, which is in `handler`, to its next await
Running(p, handler) ==
  /\ tasks[p].handler = handler
  /\ Runnable(Bot, p)
  /\ Install(Continue(Bot, p))

CallbackStartLearning(p) ==
  \/ /\ tasks[p] = Idle
     /\ BotSessionIds \ created # {}
     /\ \E u \in UserIds, d \in DictIds, words_list \in BotWordLists :
          Install(callback_start_learning(
                    Bot, p, u, d, words_list,
                    CHOOSE sid \in BotSessionIds \ created : TRUE))
  \/ Running(p, "start_learning")

\* the router passes an answer on only in the state waiting_for_answer
CallbackHandleAnswer(p) ==
  \/ /\ tasks[p] = Idle
     /\ \E u \in UserIds, word \in BotTexts, is_correct \in BOOLEAN :
          /\ fsm[u].state = "waiting_for_answer"
          /\ Install(callback_handle_answer(Bot, p, u, word, is_correct))
  \/ Running(p, "handle_answer")

\* the pause button is on the questions of a session
CallbackPauseSession(p) ==
  \/ /\ tasks[p] = Idle
     /\ \E u \in UserIds, sid \in created :
          Install(callback_pause_session(Bot, p, u, sid))
  \/ Running(p, "pause_session")

CallbackPauseAndMenu(p) ==
  /\ tasks[p] = Idle
  /\ \E u \in UserIds : Install(callback_pause_and_menu(Bot, p, u))

\* the resume and end buttons are on the paused keyboard of a session
CallbackResumeSession(p) ==
  \/ /\ tasks[p] = Idle
     /\ \E u \in UserIds, sid \in keyboards :
          Install(callback_resume_session(Bot, p, u, sid))
  \/ Running(p, "resume_session")

\* the 30 seconds of asyncio.timeout(30) are over for the resume of task p
ResumeTimeout(p) ==
  /\ tasks[p].handler = "resume_session"
  /\ Install(resume_timeout(Bot, p))

CallbackEndPausedSession(p) ==
  \/ /\ tasks[p] = Idle
     /\ \E u \in UserIds, sid \in keyboards :
          Install(callback_end_paused_session(Bot, p, u, sid))
  \/ Running(p, "end_paused_session")

NextBot ==
  \E p \in ProcIds :
    \/ CallbackStartLearning(p)
    \/ CallbackHandleAnswer(p)
    \/ CallbackPauseSession(p)
    \/ CallbackPauseAndMenu(p)
    \/ CallbackResumeSession(p)
    \/ ResumeTimeout(p)
    \/ CallbackEndPausedSession(p)

InitBotOnly == InitSession(<<"korova">>) /\ InitTracker /\ InitBot

SpecBot == InitBotOnly /\ [][NextBot]_vars

\* the handlers that start, pause, resume and end a session, without the
\* answers
NextPauseResume ==
  \E p \in ProcIds :
    \/ CallbackStartLearning(p)
    \/ CallbackPauseSession(p)
    \/ CallbackPauseAndMenu(p)
    \/ CallbackResumeSession(p)
    \/ ResumeTimeout(p)
    \/ CallbackEndPausedSession(p)

\* the timer of asyncio.timeout(30) runs whatever the other tasks do; no
\* other step is required to happen
SpecPauseResumeFair ==
  /\ InitBotOnly
  /\ [][NextPauseResume]_vars
  /\ \A p \in ProcIds : WF_vars(ResumeTimeout(p))

\* the learner presses a button of an older question, whose word is not the
\* current word of the session
CallbackStaleAnswer(p) ==
  /\ tasks[p] = Idle
  /\ \E u \in UserIds, word \in StaleTexts, is_correct \in BOOLEAN :
       /\ fsm[u].state = "waiting_for_answer"
       /\ Install(callback_handle_answer(Bot, p, u, word, is_correct))

\* the question of task p cannot be sent
ShowFails(p) ==
  /\ tasks[p].pc = "show_sent"
  /\ Install(show_failed(Bot, p))

\* starting and answering, with stale buttons and questions that fail
NextDialogue ==
  \E p \in ProcIds :
    \/ CallbackStartLearning(p)
    \/ CallbackHandleAnswer(p)
    \/ CallbackStaleAnswer(p)
    \/ ShowFails(p)

SpecDialogue == InitBotOnly /\ [][NextDialogue]_vars

(***************************************************************************)
(* Properties                                                              *)
(***************************************************************************)
Pool == DOMAIN session.words

AllMastered == \A t \in Pool : session.words[t].is_mastered

\* the last operation was an accepted record_answer(t, FALSE)
IncorrectApplied(t) ==
  ret.op = "record_answer" /\ ret.ok /\ ~ret.is_correct /\ ret.word = t

\* the last operation was a get_next_word that returned t
Returned(t) == ret.op = "get_next_word" /\ ret.value = t

\* C1: immediately after an incorrect answer is applied to an item, whatever
\* its state was before (mastered included), the item has
\* consecutive_correct = 0 and is_mastered = FALSE.
C1_IncorrectResets ==
  \A t \in Pool :
    IncorrectApplied(t) =>
      /\ session.words[t].consecutive_correct = 0
      /\ ~session.words[t].is_mastered

\* the scenario of the claim: an item mastered by three straight correct
\* answers (3 attempts) has just received its first incorrect answer
C1_Witness ==
  \E t \in Pool :
    /\ IncorrectApplied(t)
    /\ session.words[t].correct_count = 3
    /\ session.words[t].total_attempts = 4
    /\ session.words[t].incorrect_count = 1
    /\ session.words[t].consecutive_correct = 0
    /\ ~session.words[t].is_mastered

\* C2: in every reachable state and for every item, the stored flag
\* is_mastered is true exactly when the four criteria hold of the counters:
\* streak >= 3, attempts >= 3, correct >= 3, correct / attempts >= 0.75.
C2_MasteredIffCriteria ==
  \A t \in Pool :
    LET w == session.words[t]
    IN w.is_mastered <=>
         /\ w.consecutive_correct >= MASTERY_CONSECUTIVE_CORRECT
         /\ w.total_attempts >= MASTERY_MIN_ATTEMPTS
         /\ w.correct_count >= MASTERY_MIN_ATTEMPTS
         /\ w.correct_count * MASTERY_SUCCESS_RATE_DEN
              >= MASTERY_SUCCESS_RATE_NUM * w.total_attempts

\* an item with a streak of 3 and 3 correct answers that the success rate
\* alone keeps unmastered (3 correct out of 5)
C2_Witness ==
  \E t \in Pool :
    /\ session.words[t].consecutive_correct = 3
    /\ session.words[t].correct_count = 3
    /\ session.words[t].total_attempts = 5
    /\ ~session.words[t].is_mastered

\* C3: get_next_word_by_priority, and so get_next_word, never returns a
\* mastered item, and returns None exactly when no item of the pool is
\* unmastered.
C3_NeverSelectsMastered ==
  LET r == get_next_word_by_priority(session.words, session.keys)
  IN /\ (r = None) <=> AllMastered
     /\ r # None => (r \in Pool /\ ~session.words[r].is_mastered)
     /\ ret.op = "get_next_word" =>
          /\ (ret.value = None) <=> AllMastered
          /\ ret.value # None =>
               /\ ret.value \in Pool
               /\ ~session.words[ret.value].is_mastered
               /\ session.current_word = ret.value

\* get_next_word has just returned an item of a pool that also holds a
\* mastered item
C3_Witness ==
  /\ ret.op = "get_next_word"
  /\ ret.value # None
  /\ \E t \in Pool : session.words[t].is_mastered

\* C4: is_complete() is true exactly when the progress snapshot has
\* mastered = total, that is when every item of the pool is mastered.
C4_CompleteIffAllCounted ==
  LET p == get_session_progress(session.words)
  IN /\ is_complete(session) <=> (p.mastered = p.total)
     /\ is_complete(session) <=> AllMastered

\* a complete session of a pool of two items
C4_Witness ==
  /\ Cardinality(Pool) = 2
  /\ is_complete(session)
  /\ get_session_progress(session.words).mastered = 2

\* an item answered correctly at least 3 times in a row, with no error
CleanStreak(t) ==
  /\ session.words[t].incorrect_count = 0
  /\ session.words[t].consecutive_correct >= MASTERY_CONSECUTIVE_CORRECT

\* an item that was answered correctly at least 3 times in a row with no
\* error (and was mastered by that) and then received one incorrect answer
CleanStreakThenMissed(t) ==
  /\ session.words[t].incorrect_count = 1
  /\ session.words[t].consecutive_correct = 0
  /\ session.words[t].correct_count >= MASTERY_CONSECUTIVE_CORRECT

C5_MasteredByStreak == \A t \in Pool : CleanStreak(t) => session.words[t].is_mastered

C5_NoneWhenAllMastered ==
  AllMastered =>
    /\ get_next_word(session).value = None
    /\ get_next_word(session).session = session
    /\ is_complete(session)

\* C5 as stated: an item answered correctly 3 times in a row with no error
\* becomes mastered; from then on no get_next_word call of the session
\* returns it; once all items are mastered get_next_word returns None and
\* is_complete() is true.
C5_Original ==
  /\ C5_MasteredByStreak
  /\ \A t \in Pool : CleanStreakThenMissed(t) => ~Returned(t)
  /\ C5_NoneWhenAllMastered

\* C5 amended: an item answered correctly 3 times in a row with no error
\* becomes mastered; as long as it stays mastered (no incorrect answer is
\* recorded for it) no get_next_word call returns it; once all items are
\* mastered get_next_word returns None and is_complete() is true.
C5_MasteredStaysOutWhileMastered ==
  /\ C5_MasteredByStreak
  /\ \A t \in Pool : session.words[t].is_mastered => ~Returned(t)
  /\ C5_NoneWhenAllMastered

\* every item of a pool of two was mastered by a clean streak and
\* get_next_word has just returned None
C5_Witness ==
  /\ Cardinality(Pool) = 2
  /\ \A t \in Pool : CleanStreak(t) /\ session.words[t].is_mastered
  /\ Returned(None)
  /\ is_complete(session)

\* C6: record_answer(text, correct) returns False and leaves the session
\* unchanged whenever text is not a key of the pool or is not the current
\* item; it applies the update only when text is the current item.
C6_RejectsUnknownOrStale ==
  [][ (ret'.op = "record_answer"
       /\ (ret'.word \notin Pool \/ ret'.word # session.current_word))
      => (~ret'.ok /\ session' = session) ]_vars

IsPrefix(s1, s2) == Len(s1) <= Len(s2) /\ SubSeq(s2, 1, Len(s1)) = s1

NoDuplicates(s) == \A i, j \in 1..Len(s) : s[i] = s[j] => i = j

\* C7: words_mastered_list holds each item at most once, only ever grows at
\* its end, and words_mastered is its length, also when an item's flag goes
\* true, false and true again.
C7_MasteredListAppendOnly ==
  /\ [](/\ NoDuplicates(session.stats.words_mastered_list)
        /\ session.stats.words_mastered
             = Len(session.stats.words_mastered_list))
  /\ [][IsPrefix(session.stats.words_mastered_list,
                 session.stats.words_mastered_list')]_vars

\* three correct answers, one incorrect, three correct again: the flag of the
\* item went true, false, true and the item is listed once
C7_Witness ==
  \E t \in Pool :
    /\ session.words[t].consecutive_correct = 3
    /\ session.words[t].correct_count = 6
    /\ session.words[t].incorrect_count = 1
    /\ session.words[t].is_mastered
    /\ Cardinality({i \in 1..Len(session.stats.words_mastered_list) :
                      session.stats.words_mastered_list[i] = t}) = 1

\* a load_session that directly follows save_session of the live session
LoadAfterSave == ret.op = "save_session" /\ ret'.op = "load_session"

\* C8: save_session of a session with a non-empty pool succeeds, and the
\* load_session that follows returns a session with the same keys and, for
\* every item, the same counters, flag and priority_score.
C8_RoundTripItems ==
  [][ /\ ret'.op = "save_session" => ret'.ok
      /\ LoadAfterSave =>
           /\ loaded' # <<>>
           /\ DOMAIN loaded'[1].words = Pool
           /\ \A t \in Pool : loaded'[1].words[t] = session.words[t]
           /\ get_session_progress(loaded'[1].words).mastered
                = get_session_progress(session.words).mastered ]_vars

\* the answers of a replay
ReplayLen == 2

AnswerSeqs == UNION {[1..n -> BOOLEAN] : n \in 0..ReplayLen}

\* the values get_next_word and is_complete give, call by call, when the
\* item returned is answered as the sequence says
RECURSIVE Outputs(_, _)
Outputs(s, answers) ==
  LET r == get_next_word(s)
      here == << <<r.value, is_complete(s)>> >>
  IN IF answers = <<>> THEN here
     ELSE LET s2 == IF r.value = None THEN r.session
                    ELSE record_answer(r.session, r.value,
                                       Head(answers)).session
          IN here \o Outputs(s2, Tail(answers))

\* C9: the session load_session returns after save_session gives, call by
\* call, the same get_next_word values and the same is_complete values as
\* the saved session when both are fed the same answers.
C9_BehaviouralRoundTrip ==
  [][ LoadAfterSave =>
        /\ loaded' # <<>>
        /\ \A answers \in AnswerSeqs :
             Outputs(loaded'[1], answers) = Outputs(session, answers) ]_vars

\* C10: the session load_session returns after save_session has the same
\* session_id, user_id, dict_id, current_word and stats as the saved one, so
\* correct_answers + incorrect_answers is still the sum of the items'
\* total_attempts.
RECURSIVE SumAttempts(_, _)
SumAttempts(words, keys) ==
  IF keys = <<>> THEN 0
  ELSE words[Head(keys)].total_attempts + SumAttempts(words, Tail(keys))

C10_RoundTripStats ==
  [][ LoadAfterSave =>
        /\ loaded' # <<>>
        /\ loaded'[1].session_id = session.session_id
        /\ loaded'[1].user_id = session.user_id
        /\ loaded'[1].dict_id = session.dict_id
        /\ loaded'[1].current_word = session.current_word
        /\ loaded'[1].stats = session.stats
        /\ Answers(loaded'[1])
             = SumAttempts(loaded'[1].words, loaded'[1].keys) ]_vars

\* C19: for every item of the session total_attempts is correct_count +
\* incorrect_count, the four counters are never negative, and
\* consecutive_correct is never above correct_count.
C19_CounterInvariants ==
  \A t \in Pool :
    LET w == session.words[t]
    IN /\ w.total_attempts = w.correct_count + w.incorrect_count
       /\ w.total_attempts >= 0
       /\ w.correct_count >= 0
       /\ w.incorrect_count >= 0
       /\ w.consecutive_correct >= 0
       /\ w.consecutive_correct <= w.correct_count

\* an item answered correctly, then incorrectly, then correctly
C19_Witness ==
  \E t \in Pool :
    /\ session.words[t].correct_count = 2
    /\ session.words[t].incorrect_count = 1
    /\ session.words[t].consecutive_correct = 1
    /\ session.words[t].total_attempts = 3

\* the accepted record_answer call of this step was for item t
AnswerApplied(t) ==
  /\ ret'.op = "record_answer" /\ ret'.ok /\ ret'.word = t
  /\ t \in Pool

\* C20: priority_score is 100 for an item that was never answered and stays
\* within 1..100; an accepted correct answer takes it from p to max(1, p-20)
\* and an accepted incorrect answer to min(100, p+30).
C20_PriorityBounds ==
  /\ [](\A t \in Pool :
          /\ session.words[t].priority_score \in 1..100
          /\ session.words[t].total_attempts = 0
               => session.words[t].priority_score = 100)
  /\ [][ \A t \in Texts :
           AnswerApplied(t) =>
             LET p == session.words[t].priority_score
                 q == session'.words[t].priority_score
             IN IF ret'.is_correct
                THEN q = (IF p - 20 >= 1 THEN p - 20 ELSE 1)
                ELSE q = (IF p + 30 <= 100 THEN p + 30 ELSE 100) ]_vars

\* five correct answers: 100, 80, 60, 40, 20 and then the lower clamp
C20_Witness ==
  \E t \in Pool :
    /\ session.words[t].correct_count = 5
    /\ session.words[t].incorrect_count = 0
    /\ session.words[t].priority_score = 1

(***************************************************************************)
(* Properties of the progress tracker                                      *)
(***************************************************************************)
\* times_mastered of a word in a progress, 0 without a WordProgress
TimesMastered(p, dict_id, word) ==
  LET dict_progress == DictGet(p.dictionaries_progress, dict_id, EmptyDict)
  IN IF word \in DOMAIN dict_progress
     THEN dict_progress[word].times_mastered ELSE 0

\* the items of a list that were never mastered before
FirstMasteries(p, dict_id, words_mastered) ==
  {w \in Range(words_mastered) : TimesMastered(p, dict_id, w) = 0}

\* C15: update_session_stats applied twice with the same words_mastered
\* raises total_words_learned by one for each distinct item of the list that
\* was not learned before, all of it in the first application: the second
\* application adds nothing to total_words_learned.
C15_TwiceCountsOnce ==
  \A dict_id \in DictIds, counts \in SessionCounts,
     words_mastered \in MasteredLists :
    LET r1 == update_session_stats(progress_files, progress, dict_id,
                                   counts[1], counts[2], words_mastered)
        r2 == update_session_stats(r1.files, r1.progress, dict_id,
                                   counts[1], counts[2], words_mastered)
    IN /\ r2.progress.total_words_learned
            = progress.total_words_learned
                + Cardinality(FirstMasteries(progress, dict_id,
                                             words_mastered))
       /\ r2.progress.total_words_learned
            = r1.progress.total_words_learned

\* C16: a call of update_session_stats raises times_mastered by 1 for every
\* item of words_mastered, creating the WordProgress when there is none, and
\* raises total_words_learned by the number of items whose times_mastered
\* went from 0 to 1.
C16_SessionStatsCountMastery ==
  [][ tcall'.op = "update_session_stats" =>
        /\ \A w \in Range(tcall'.words_mastered) :
             /\ tcall'.dict_id \in DOMAIN progress'.dictionaries_progress
             /\ w \in DOMAIN progress'.dictionaries_progress[tcall'.dict_id]
             /\ TimesMastered(progress', tcall'.dict_id, w)
                  = TimesMastered(progress, tcall'.dict_id, w) + 1
        /\ progress'.total_words_learned
             = progress.total_words_learned
                 + Cardinality(FirstMasteries(progress, tcall'.dict_id,
                                              tcall'.words_mastered)) ]_vars

\* what progress.json of a user holds, the fresh progress without a file
Durable(files, user_id) ==
  IF user_id \in DOMAIN files THEN files[user_id] ELSE UserProgress(user_id)

\* C18: every finish of a session is in the durable progress afterwards:
\* total_sessions of progress.json has grown by 1 and total_correct and
\* total_incorrect by the counts of the session, so that two finishes of the
\* same user, in whatever order, leave total_sessions grown by 2 and the
\* totals grown by the sum of both.
C18_FinishesAreDurable ==
  [][ tcall'.op = "finish_learning_session" =>
        LET before == Durable(progress_files, tcall'.user_id)
            after == Durable(progress_files', tcall'.user_id)
        IN /\ after.total_sessions = before.total_sessions + 1
           /\ after.total_correct
                = before.total_correct + tcall'.correct_count
           /\ after.total_incorrect
                = before.total_incorrect + tcall'.incorrect_count ]_vars

(***************************************************************************)
(* Properties of the handlers                                              *)
(***************************************************************************)
\* the registry has an entry for session sid
LiveIn(registry, sid) == \E u \in DOMAIN registry : registry[u] = sid

\* task p is inside `async with session_resume_locks[session_id]`
InGuard(p) ==
  /\ tasks[p].handler = "resume_session"
  /\ tasks[p].pc # "resume_wait"

\* C11: of the resume requests for one session id that are in flight together
\* at most one is inside the guarded part, where the record is read and the
\* session registered, and it is the one that holds the lock of that id; the
\* registry is changed by a resume only there.  The others wait, and return
\* with a rejection or a timeout.
C11_OneResumeProceeds ==
  /\ [](\A p \in ProcIds :
          InGuard(p) =>
            /\ tasks[p].session_id \in DOMAIN session_resume_locks
            /\ session_resume_locks[tasks[p].session_id] = p
            /\ \A q \in ProcIds \ {p} :
                 InGuard(q) => tasks[q].session_id # tasks[p].session_id)
  /\ [][ \A p \in ProcIds :
           /\ tasks[p].handler = "resume_session"
           /\ tasks'[p] # tasks[p]
           => /\ active_sessions' # active_sessions
                   => tasks[p].pc = "resume_get_data"
              /\ tasks'[p].pc = "idle" /\ tasks[p].pc = "resume_wait"
                   => reported'.outcome = "timeout" ]_vars

\* one resume is inside the guarded part, after load_session and at the
\* await of its alert, and another one for the same session id waits for
\* the lock
C11_Witness ==
  \E p, q \in ProcIds :
    /\ p # q
    /\ InGuard(p)
    /\ tasks[p].pc = "resume_not_found"
    /\ tasks[q].handler = "resume_session"
    /\ tasks[q].pc = "resume_wait"
    /\ tasks[q].session_id = tasks[p].session_id

\* a pause handler that got as far as removing the session returns
PauseCompleted(p) ==
  \/ tasks[p].pc = "pause_delete" /\ tasks'[p].pc = "idle"
  \/ /\ tasks[p].pc = "idle" /\ tasks'[p].pc = "idle"
     /\ active_sessions' # active_sessions
     /\ reported'.task = p /\ reported'.handler = "pause_and_menu"

\* C12: when a pause returns, either it reported success, the store holds the
\* record of the session and the registry does not hold the session, or it
\* reported a failure and the session is still in the registry; and a
\* session the FSM has as paused is always in the registry or in the store.
C12_PauseAtomic ==
  /\ [](\A u \in UserIds :
          fsm[u].state = "session_paused"
            => \/ LiveIn(active_sessions, fsm[u].paused_session_id)
               \/ <<u, fsm[u].paused_session_id>> \in DOMAIN store)
  /\ [][ \A p \in ProcIds :
           PauseCompleted(p) =>
             \/ /\ reported'.outcome = "paused"
                /\ <<reported'.user_id, reported'.ref>> \in DOMAIN store'
                /\ ~LiveIn(active_sessions', reported'.ref)
             \/ /\ reported'.outcome = "pause_error"
                /\ LiveIn(active_sessions', reported'.ref) ]_vars

\* C13: a resume that leaves the wait for the lock without having got it
\* reports a timeout and changes nothing else, and every resume request
\* returns in the end, whatever the task that holds the lock does.
C13_ResumeReturns ==
  /\ [][ \A p \in ProcIds :
           tasks[p].pc = "resume_wait" /\ tasks'[p].pc = "idle"
           => /\ reported'.task = p
              /\ reported'.outcome = "timeout"
              /\ active_sessions' = active_sessions
              /\ fsm' = fsm ]_vars
  /\ \A p \in ProcIds :
       (tasks[p].handler = "resume_session") ~> (tasks[p].pc = "idle")

\* a resume timed out while another task still held the lock of its session
C13_Witness ==
  /\ reported.handler = "resume_session"
  /\ reported.outcome = "timeout"
  /\ \E q \in ProcIds :
       /\ InGuard(q)
       /\ tasks[q].session_id = reported.session_id

\* C14: load_session gives none for a key without a file, and the resume
\* that gets none changes neither the registry nor the session objects and
\* reports that the session was not found.
C14_NoFabricatedSession ==
  /\ [](\A u \in UserIds, sid \in BotSessionIds :
          <<u, sid>> \notin DOMAIN store => load_session(store, u, sid) = <<>>)
  /\ [][ \A p \in ProcIds :
           /\ tasks[p].pc = "resume_get_data"
           /\ tasks'[p] # tasks[p]
           /\ fsm[tasks[p].user_id].paused_session_id # None
           /\ load_session(store, tasks[p].user_id, tasks[p].session_id)
                = <<>>
           => /\ active_sessions' = active_sessions
              /\ objects' = objects
              /\ \/ tasks'[p].pc = "resume_not_found"
                 \/ reported'.task = p /\ reported'.outcome = "timeout" ]_vars
  /\ [][ \A p \in ProcIds :
           tasks[p].pc = "resume_not_found" /\ tasks'[p].pc = "idle"
           => /\ active_sessions' = active_sessions
              /\ reported'.task = p
              /\ reported'.outcome \in {"session_not_found", "timeout"} ]_vars

\* a resume of a paused session got none from load_session and said so
C14_Witness ==
  /\ reported.handler = "resume_session"
  /\ reported.outcome = "session_not_found"
  /\ reported.session_id \in keyboards
  /\ reported.user_id \notin DOMAIN active_sessions

\* C17: when finish_learning_session returns after its summary, and when
\* callback_end_paused_session returns for the session of its button, that
\* session is not in the registry and the store has no record for it.
C17_GoneAfterFinishOrEnd ==
  [][ \A p \in ProcIds :
        /\ tasks[p].pc = "finish_summary" /\ tasks'[p].pc = "idle"
             => /\ reported'.task = p
                /\ ~LiveIn(active_sessions', reported'.ref)
                /\ <<reported'.user_id, reported'.ref>> \notin DOMAIN store'
        /\ tasks[p].pc = "end_get_data" /\ tasks'[p].pc = "idle"
             => /\ reported'.task = p
                /\ ~LiveIn(active_sessions', reported'.session_id)
                /\ <<reported'.user_id, reported'.session_id>>
                     \notin DOMAIN store' ]_vars

\* a session was answered to completion and finished
C17_Witness ==
  /\ reported.outcome = "finished"
  /\ reported.ref \in created
  /\ reported.user_id \notin DOMAIN active_sessions

(***************************************************************************)
(* Properties of finish_session                                            *)
(***************************************************************************)
\* the items of the pool that are mastered now
MasteredNow(s) == {t \in DOMAIN s.words : s.words[t].is_mastered}

\* finish_session has set ended_at and has left the items, the current word,
\* the number of questions shown and the answer counters as they were
FinishFrame ==
  /\ session'.stats.ended_at # None
  /\ finish_session(session).value = session'.stats
  /\ session'.words = session.words
  /\ session'.keys = session.keys
  /\ session'.current_word = session.current_word
  /\ session'.total_words_shown = session.total_words_shown
  /\ session'.stats = [session.stats EXCEPT !.ended_at = session'.stats.ended_at]

has_recent_error(w) == w.incorrect_count > 0 /\ w.consecutive_correct = 0

\* the position of a key in the insertion order of the pool
Position(order, t) == CHOOSE i \in 1..Len(order) : order[i] = t

\* a comes strictly before b in the composite order
ComesBefore(words, order, a, b) ==
  LET x == words[a]
      y == words[b]
  IN \/ has_recent_error(x) /\ ~has_recent_error(y)
     \/ /\ has_recent_error(x) = has_recent_error(y)
        /\ \/ x.priority_score > y.priority_score
           \/ /\ x.priority_score = y.priority_score
              /\ \/ x.total_attempts < y.total_attempts
                 \/ /\ x.total_attempts = y.total_attempts
                    /\ Position(order, a) < Position(order, b)

\* the unmastered items that come before every other unmastered item
Minimal(words, order) ==
  LET unmastered == {t \in DOMAIN words : ~words[t].is_mastered}
  IN {t \in unmastered :
        \A u \in unmastered \ {t} : ComesBefore(words, order, t, u)}

\* C25: get_next_word_by_priority returns the unmastered item that is minimal
\* under the composite order (has_recent_error first, then higher
\* priority_score, then lower total_attempts, then insertion order), and so
\* does a get_next_word that returns an item.
C25_MinimalUnderOrder ==
  LET r == get_next_word_by_priority(session.words, session.keys)
  IN /\ r # None => Minimal(session.words, session.keys) = {r}
     /\ r = None => Minimal(session.words, session.keys) = {}
     /\ (ret.op = "get_next_word" /\ ret.value # None)
          => Minimal(session.words, session.keys) = {ret.value}

\* get_next_word returned the later of two unmastered items that agree on
\* has_recent_error and priority_score: it has fewer attempts
C25_Witness ==
  \E t \in Pool, u \in Pool :
    /\ Returned(t)
    /\ ~session.words[u].is_mastered
    /\ Position(session.keys, u) < Position(session.keys, t)
    /\ has_recent_error(session.words[u]) = has_recent_error(session.words[t])
    /\ session.words[u].priority_score = session.words[t].priority_score
    /\ session.words[u].total_attempts > session.words[t].total_attempts

\* no unmastered item other than x has has_recent_error and a priority_score
\* at least that of x
NoRival(s, x) ==
  \A u \in DOMAIN s.words \ {x} :
    ~ /\ ~s.words[u].is_mastered
      /\ has_recent_error(s.words[u])
      /\ s.words[u].priority_score >= s.words[x].priority_score

\* what get_next_word returns after an incorrect answer for x
ResurfacesAfterError(s, x, value) ==
  /\ value # None
  /\ has_recent_error(s.words[value])
  /\ NoRival(s, x) => value = x

\* C26: right after an accepted incorrect answer for x, get_next_word returns
\* an item that has has_recent_error, and x itself when no other unmastered
\* item has has_recent_error with a priority_score >= that of x.
C26_ErrorResurfaces ==
  /\ [](\A x \in Pool :
          IncorrectApplied(x) =>
            ResurfacesAfterError(session, x, get_next_word(session).value))
  /\ [][ \A x \in Pool :
           (IncorrectApplied(x) /\ ret'.op = "get_next_word")
             => ResurfacesAfterError(session', x, ret'.value) ]_vars

\* get_next_word returned the item that was just missed, although another
\* unmastered item has has_recent_error (with a lower priority_score) and a
\* third one a higher priority_score without has_recent_error
C26_Witness ==
  \E x \in Pool, u \in Pool :
    /\ Returned(x)
    /\ has_recent_error(session.words[x])
    /\ u # x
    /\ ~session.words[u].is_mastered
    /\ \/ /\ has_recent_error(session.words[u])
          /\ session.words[u].priority_score < session.words[x].priority_score
       \/ /\ ~has_recent_error(session.words[u])
          /\ session.words[u].priority_score > session.words[x].priority_score

\* C27: when get_next_word returns a text t, afterwards current_word = t and
\* total_words_shown has grown by exactly 1 and no item counter or stats
\* field changed; when it returns None, current_word and total_words_shown
\* are unchanged and the session is complete.
C27_NextWordFrame ==
  [][ ret'.op = "get_next_word" =>
        IF ret'.value # None
        THEN /\ session'.current_word = ret'.value
             /\ session'.total_words_shown = session.total_words_shown + 1
             /\ session'.words = session.words
             /\ session'.keys = session.keys
             /\ session'.stats = session.stats
        ELSE /\ session' = session
             /\ is_complete(session') ]_vars

\* the second question of a session: get_next_word returned an item after an
\* answer was recorded
C27_Witness ==
  /\ ret.op = "get_next_word"
  /\ ret.value # None
  /\ session.total_words_shown = 2
  /\ Answers(session) > 0

\* C28: an accepted record_answer changes only the answered item and the
\* stats: a correct answer raises the item's consecutive_correct,
\* correct_count and total_attempts by 1 and stats.correct_answers by 1 and
\* leaves incorrect_count; an incorrect answer raises incorrect_count and
\* total_attempts by 1 and stats.incorrect_answers by 1 and leaves
\* correct_count; every other item of the pool is unchanged.
C28_AnswerFrame ==
  [][ \A t \in Texts :
        AnswerApplied(t) =>
          LET w == session.words[t]
              v == session'.words[t]
          IN /\ DOMAIN session'.words = DOMAIN session.words
             /\ \A u \in Pool \ {t} : session'.words[u] = session.words[u]
             /\ session'.keys = session.keys
             /\ session'.current_word = session.current_word
             /\ session'.total_words_shown = session.total_words_shown
             /\ v.text = w.text
             /\ v.total_attempts = w.total_attempts + 1
             /\ IF ret'.is_correct
                THEN /\ v.consecutive_correct = w.consecutive_correct + 1
                     /\ v.correct_count = w.correct_count + 1
                     /\ v.incorrect_count = w.incorrect_count
                     /\ session'.stats.correct_answers
                          = session.stats.correct_answers + 1
                     /\ session'.stats.incorrect_answers
                          = session.stats.incorrect_answers
                ELSE /\ v.incorrect_count = w.incorrect_count + 1
                     /\ v.correct_count = w.correct_count
                     /\ session'.stats.incorrect_answers
                          = session.stats.incorrect_answers + 1
                     /\ session'.stats.correct_answers
                          = session.stats.correct_answers ]_vars

\* an incorrect answer was accepted for an item of a pool of three in which
\* another item has answers of both kinds
C28_Witness ==
  \E t \in Pool, u \in Pool :
    /\ IncorrectApplied(t)
    /\ u # t
    /\ Cardinality(Pool) = 3
    /\ session.words[u].correct_count > 0
    /\ session.words[u].incorrect_count > 0

(***************************************************************************)
(* Properties of the totals of the progress tracker                        *)
(***************************************************************************)
\* C22: update_session_stats raises total_sessions by exactly 1 and
\* total_correct and total_incorrect by the counts of the session, and
\* get_total_progress then reports success_rate = 100 * total_correct /
\* (total_correct + total_incorrect) over those totals, which is above 0 for
\* a learner whose sessions contain correct answers.
C22_SessionTotalsAndRate ==
  [][ tcall'.op = "update_session_stats" =>
        LET total == get_total_progress(progress')
            answers == total.total_correct + total.total_incorrect
        IN /\ progress'.total_sessions = progress.total_sessions + 1
           /\ progress'.total_correct
                = progress.total_correct + tcall'.correct_count
           /\ progress'.total_incorrect
                = progress.total_incorrect + tcall'.incorrect_count
           /\ total.total_sessions = progress'.total_sessions
           /\ total.total_correct = progress'.total_correct
           /\ total.total_incorrect = progress'.total_incorrect
           /\ answers > 0 =>
                total.success_rate.num * answers
                  = 100 * total.total_correct * total.success_rate.den
           /\ total.total_correct > 0 => total.success_rate.num > 0 ]_vars

\* the WordProgress of a word, a fresh one when the tracker has none
WordProgressOf(p, dict_id, word) ==
  DictGet(DictGet(p.dictionaries_progress, dict_id, EmptyDict), word,
          WordProgress(word))

\* C23: update_word_progress raises total_attempts by 1 and exactly one of
\* total_correct and total_incorrect by 1, on the learner and on the
\* WordProgress of the item alike, and raises total_words_learned by 1 only
\* in the call in which times_mastered of the item goes from 0 to 1; a later
\* mastered call raises times_mastered and not total_words_learned.
C23_WordProgressTotals ==
  [][ tcall'.op = "update_word_progress" =>
        LET c == IF tcall'.is_correct THEN 1 ELSE 0
            before == WordProgressOf(progress, tcall'.dict_id, tcall'.word)
            after == WordProgressOf(progress', tcall'.dict_id, tcall'.word)
            first == tcall'.is_mastered /\ before.times_mastered = 0
        IN /\ tcall'.ok
           /\ tcall'.dict_id \in DOMAIN progress'.dictionaries_progress
           /\ tcall'.word
                \in DOMAIN progress'.dictionaries_progress[tcall'.dict_id]
           /\ progress'.total_attempts = progress.total_attempts + 1
           /\ progress'.total_correct = progress.total_correct + c
           /\ progress'.total_incorrect = progress.total_incorrect + (1 - c)
           /\ after.total_correct = before.total_correct + c
           /\ after.total_incorrect = before.total_incorrect + (1 - c)
           /\ after.times_mastered
                = before.times_mastered
                    + (IF tcall'.is_mastered THEN 1 ELSE 0)
           /\ progress'.total_words_learned
                = progress.total_words_learned + (IF first THEN 1 ELSE 0)
           /\ first <=> (before.times_mastered = 0
                           /\ after.times_mastered = 1) ]_vars

\* the second mastered call for a word: times_mastered is 2 and the word was
\* counted as learned once
C23_Witness ==
  /\ tcall.op = "update_word_progress"
  /\ tcall.is_mastered
  /\ TimesMastered(progress, tcall.dict_id, tcall.word) = 2
  /\ progress.total_words_learned = 1
  /\ progress.total_attempts = 2

(***************************************************************************)
(* Properties of load_all_sessions_for_user                                *)
(***************************************************************************)
\* C24: load_all_sessions_for_user returns, keyed by session_id, every
\* session of the user whose file is well formed, also when other files of
\* the user are corrupt, and nothing for the corrupt ones.
C24_ListsWellFormed ==
  ret.op = "load_all_sessions_for_user" =>
    \A k \in DOMAIN store :
      k[1] = listed.user_id =>
        IF store[k].valid_json
        THEN /\ k[2] \in DOMAIN listed.sessions
             /\ listed.sessions[k[2]].session_id = k[2]
        ELSE k[2] \notin DOMAIN listed.sessions

(***************************************************************************)
(* Properties of the answer handler                                        *)
(***************************************************************************)
\* task p applies record_answer in this step
RecordsAnswer(p) ==
  /\ tasks[p].handler = "handle_answer"
  /\ tasks[p].pc = "answer_record"
  /\ tasks'[p].pc = "answer_feedback"

\* C30: an answer is never replayed.  No session has more answers recorded
\* than questions shown; a handler records an answer only for the question
\* its button belongs to, which is the one on display and has no answer yet;
\* and a handler that returns as a duplicate leaves every session as it was.
C30_NoReplay ==
  /\ [](\A sid \in DOMAIN objects :
          Answers(objects[sid]) <= objects[sid].total_words_shown)
  /\ [][ \A p \in ProcIds :
           /\ RecordsAnswer(p) =>
                LET s == objects[tasks[p].ref]
                IN /\ tasks[p].question = <<tasks[p].ref, s.total_words_shown>>
                   /\ Answers(s) = s.total_words_shown - 1
                   /\ Answers(objects'[tasks[p].ref]) = Answers(s) + 1
           /\ ( /\ tasks[p].handler = "handle_answer"
                /\ tasks'[p].pc = "idle"
                /\ reported'.outcome \in {"duplicate", "word_changed"} )
                => \A sid \in DOMAIN objects' :
                     objects'[sid] = objects[sid] ]_vars

C32_Original ==
  [][ \A t \in Texts :
        (AnswerApplied(t) /\ session.words[t].is_mastered)
          => session'.words[t].is_mastered ]_vars

\* C32 amended: words_mastered_list never shrinks and no accepted correct
\* answer turns an item from mastered to unmastered; an accepted incorrect
\* answer for a mastered item, which the item that is still current after it
\* was mastered can receive, turns that item and no other to unmastered.
C32_OnlyErrorsUnmaster ==
  [][ \A t \in Texts :
        AnswerApplied(t) =>
          /\ IsPrefix(session.stats.words_mastered_list,
                      session'.stats.words_mastered_list)
          /\ \A u \in Pool \ {t} :
               session'.words[u].is_mastered = session.words[u].is_mastered
          /\ session.words[t].is_mastered
               => (session'.words[t].is_mastered <=> ret'.is_correct) ]_vars

\* a fourth correct answer in a row for the item that is still current: it
\* was mastered by the third and stays mastered
C32_Witness ==
  \E t \in Pool :
    /\ ret.op = "record_answer" /\ ret.ok /\ ret.is_correct /\ ret.word = t
    /\ session.current_word = t
    /\ session.words[t].consecutive_correct = 4
    /\ session.words[t].is_mastered

(***************************************************************************)
(* Liveness of the drill                                                   *)
(***************************************************************************)
\* C33: from every reachable state of a session, if from then on every
\* question get_next_word returns is answered correctly, get_next_word
\* returns None after finitely many steps and is_complete() is true.
C33_DrillCompletes ==
  drill ~> (Returned(None) /\ is_complete(session))

\* a drill has come to its end in a pool of two or more items of which one
\* had more incorrect than correct answers when the drill began
C33_Witness ==
  /\ drill
  /\ Returned(None)
  /\ is_complete(session)
  /\ Cardinality(Pool) >= 2
  /\ \E t \in Pool :
       /\ session.words[t].incorrect_count >= 3
       /\ session.words[t].correct_count >= 3 * session.words[t].incorrect_count

(***************************************************************************)
(* Properties of the totals of UserProgress                                *)
(***************************************************************************)
\* C35: after any sequence of update_session_stats and update_word_progress
\* calls on one learner, total_attempts = total_correct + total_incorrect.
C35_AttemptsAreAnswers ==
  progress.total_attempts = progress.total_correct + progress.total_incorrect

\* the (dict_id, word) pairs whose WordProgress has times_mastered >= 1
MasteredPairs(p) ==
  {pair \in (DOMAIN p.dictionaries_progress) \X Texts :
     /\ pair[2] \in DOMAIN p.dictionaries_progress[pair[1]]
     /\ p.dictionaries_progress[pair[1]][pair[2]].times_mastered >= 1}

\* C36: after any sequence of update_word_progress and update_session_stats
\* calls, total_words_learned is the number of distinct (dict_id, word) pairs
\* with times_mastered >= 1, which is the sum over the dictionaries of
\* get_dictionary_progress(dict_id).words_mastered.
C36_LearnedArePairs ==
  /\ progress.total_words_learned = Cardinality(MasteredPairs(progress))
  /\ progress.total_words_learned
       = DictSum([d \in DOMAIN progress.dictionaries_progress |->
                   get_dictionary_progress(progress, d).words_mastered])

(***************************************************************************)
(* Properties of the stats of a session against its items                  *)
(***************************************************************************)
RECURSIVE SumCorrect(_, _)
SumCorrect(words, keys) ==
  IF keys = <<>> THEN 0
  ELSE words[Head(keys)].correct_count + SumCorrect(words, Tail(keys))

\* the stats of s agree with the counters of its items
StatsMatchItems(s) ==
  /\ s.stats.correct_answers + s.stats.incorrect_answers
       = SumAttempts(s.words, s.keys)
  /\ s.stats.correct_answers = SumCorrect(s.words, s.keys)

LiveUnfinished(u) ==
  /\ u \in DOMAIN active_sessions
  /\ ~is_complete(objects[active_sessions[u]])
  /\ objects[active_sessions[u]].stats.ended_at = None

\* C37: the entry of a learner whose session is live and unfinished is
\* removed or replaced only in the step in which the finish or the pause of
\* that session returns; starting a session or resuming another one never
\* discards it.
C37_OnlyFinishOrPauseRemoves ==
  [][ \A u \in UserIds :
        /\ LiveUnfinished(u)
        /\ \/ u \notin DOMAIN active_sessions'
           \/ active_sessions'[u] # active_sessions[u]
        => /\ reported' # reported
           /\ reported'.user_id = u
           /\ reported'.ref = active_sessions[u]
           /\ reported'.outcome \in {"finished", "paused"} ]_vars

\* task p, a resume request, takes a step
ResumeStep(p) ==
  /\ tasks'[p] # tasks[p]
  /\ \/ tasks[p].handler = "resume_session"
     \/ tasks'[p].handler = "resume_session"

\* what a resume request reports when it fails
ResumeErrors ==
  {"timeout", "session_not_found", "paused_data_lost", "already_active"}

\* C38: a resume request that ends by reporting an error has not changed the
\* registry, neither in the step that reports nor in an earlier one: a
\* resume changes the registry only in the step that registers the loaded
\* session, and a resume that has taken that step reports no error.
C38_FailedResumeKeepsRegistry ==
  [][ \A p \in ProcIds :
        ResumeStep(p) =>
          /\ active_sessions' # active_sessions
               => tasks'[p].pc = "resume_registered"
          /\ /\ tasks'[p].pc = "idle"
             /\ reported'.outcome \in ResumeErrors
             => /\ reported'.task = p
                /\ active_sessions' = active_sessions
                /\ tasks[p].pc \in {"resume_wait", "resume_reject",
                                    "resume_get_data", "resume_no_data",
                                    "resume_not_found"} ]_vars

\* a resume timed out while the registry held a session of its learner,
\* which is still there
C38_Witness ==
  /\ reported.handler = "resume_session"
  /\ reported.outcome = "timeout"
  /\ reported.user_id \in DOMAIN active_sessions
  /\ active_sessions[reported.user_id] # reported.session_id

(***************************************************************************)
(* Properties of the dialogue of a live session                            *)
(***************************************************************************)
\* no handler task is in flight: the dialogue moves only with a new callback
Quiescent == \A p \in ProcIds : tasks[p] = Idle

\* C39: no stuck session.  When no handler is in flight and a learner has a
\* live, incomplete session, the dialogue is in waiting_for_answer, the
\* state in which the router passes an answer on; so it is after a rejected
\* answer callback and after a question that could not be rendered.
C39_NoStuckSession ==
  \A u \in UserIds :
    Quiescent /\ LiveUnfinished(u) => fsm[u].state = "waiting_for_answer"

=============================================================================
